---- MODULE Spec2Model ----
(***************************************************************************)
(* Meeting prep assistant: the meeting eligibility classifier of           *)
(* src/src/tools/calendar_tool.py and the email relevance scorer of        *)
(* src/src/tools/gmail_tool.py.                                            *)
(*                                                                         *)
(* Python dicts are functions from key strings to values; a missing key is *)
(* a key outside DOMAIN.  Python strings are TLA+ strings, taken apart     *)
(* with Len, SubSeq, Head, Tail and \o.                                    *)
(***************************************************************************)
EXTENDS Integers, Sequences, FiniteSets, TLC

(***************************************************************************)
(* Bounds of the model.                                                    *)
(***************************************************************************)
MaxAttendees == 2
MaxEmails == 2

(***************************************************************************)
(* Python built-ins used by the code.                                      *)
(***************************************************************************)
EmptyDict == [k \in {} |-> ""]

\* dict.get(key, default)
Get(d, key, default) == IF key \in DOMAIN d THEN d[key] ELSE default

UpperChars == "ABCDEFGHIJKLMNOPQRSTUVWXYZ"
LowerChars == "abcdefghijklmnopqrstuvwxyz"

LowerTable == [c \in {SubSeq(UpperChars, i, i) : i \in 1..26} |->
                 LET i == CHOOSE j \in 1..26 : SubSeq(UpperChars, j, j) = c
                 IN  SubSeq(LowerChars, i, i)]

CharLower(c) == IF c \in DOMAIN LowerTable THEN LowerTable[c] ELSE c

\* str.lower()
RECURSIVE Lower(_)
Lower(s) ==
    IF Len(s) <= 1 THEN CharLower(s)
    ELSE LET half == Len(s) \div 2
         IN  Lower(SubSeq(s, 1, half)) \o Lower(SubSeq(s, half + 1, Len(s)))

\* sub in s
Contains(sub, s) ==
    \E i \in 1..(Len(s) - Len(sub) + 1) : SubSeq(s, i, i + Len(sub) - 1) = sub

\* The index of the first occurrence of character c in s, 0 when there is none.
IndexOf(c, s) ==
    IF Contains(c, s)
    THEN CHOOSE i \in 1..Len(s) :
             /\ SubSeq(s, i, i) = c
             /\ \A j \in 1..(i - 1) : SubSeq(s, j, j) # c
    ELSE 0

\* s.split(sep)[0], sep one character
SplitFirst(s, sep) ==
    IF IndexOf(sep, s) = 0 THEN s ELSE SubSeq(s, 1, IndexOf(sep, s) - 1)

\* s.split(sep)[1], sep one character and present in s
SplitSecond(s, sep) ==
    SplitFirst(SubSeq(s, IndexOf(sep, s) + 1, Len(s)), sep)

\* [f(x) for x in seq if p(x)] is written with SelectSeq and a mapping
MapSeq(f(_), seq) == [i \in 1..Len(seq) |-> f(seq[i])]

(***************************************************************************)
(* Outcome of a call: a returned value or a raised exception.              *)
(***************************************************************************)
Returned(v) == [exc |-> "none", ret |-> v]
Raised(e)   == [exc |-> e, ret |-> FALSE]

(***************************************************************************)
(* Timestamps of raw calendar events.  An ISO-8601 text is its wall-clock  *)
(* time in seconds and its zone designator: "Z", or a numeric offset in    *)
(* seconds.  Any other text is "garbage".                                  *)
(***************************************************************************)
IsoZ(wall)        == [text |-> "iso", wall |-> wall, zone |-> "Z", off |-> 0]
IsoOff(wall, off) == [text |-> "iso", wall |-> wall, zone |-> "offset", off |-> off]
Garbage           == [text |-> "garbage", wall |-> 0, zone |-> "none", off |-> 0]

\* start.replace('Z', '+00:00')
ReplaceZ(ts) ==
    IF ts.text = "iso" /\ ts.zone = "Z" THEN IsoOff(ts.wall, 0) ELSE ts

\* datetime.fromisoformat: the instant in UTC seconds, or ValueError
FromIsoformat(ts) ==
    IF ts.text = "iso" /\ ts.zone = "offset"
    THEN [ok |-> TRUE, utc |-> ts.wall - ts.off]
    ELSE [ok |-> FALSE, utc |-> 0]

(***************************************************************************)
(* CalendarTool                                                            *)
(***************************************************************************)
skip_keywords == <<"standup", "stand-up", "lunch", "coffee", "social",
                   "birthday", "happy hour", "team building">>

\* The responseStatus of the first attendee with a truthy 'self', "" for None.
RECURSIVE MyResponse(_)
MyResponse(attendees) ==
    IF attendees = <<>> THEN ""
    ELSE IF Get(Head(attendees), "self", FALSE)
         THEN Get(Head(attendees), "responseStatus", "")
         ELSE MyResponse(Tail(attendees))

MinDurationMinutes == 15
MinAttendees == 2

\* line 188 testing for a missing 'dateTime' instead of a present 'date'
IsAllDayEventNoDateTime(event) ==
    "dateTime" \notin DOMAIN Get(event, "start", EmptyDict)

\* line 188: 'date' in event.get('start', {})
IsAllDayEvent(event) == "date" \in DOMAIN Get(event, "start", EmptyDict)

\* lines 198-200 with the division by 60 left out
IsTooShortInSeconds(start_utc, end_utc) ==
    end_utc - start_utc < MinDurationMinutes

\* lines 198-200: (end_dt - start_dt).total_seconds() / 60 < 15; the quotient
\* of whole seconds by 60 is below 15 exactly when the seconds are below 15 * 60
IsTooShort(start_utc, end_utc) ==
    end_utc - start_utc < MinDurationMinutes * 60

\* line 222: any(keyword in title or keyword in description for ...)
HasSkipKeyword(title, description) ==
    \E i \in 1..Len(skip_keywords) :
        \/ Contains(skip_keywords[i], title)
        \/ Contains(skip_keywords[i], description)

\* lines 203-228: the checks of _should_prepare_meeting after the duration check
ShouldPrepareRest(event) ==
    LET attendees   == Get(event, "attendees", <<>>)
        title       == Lower(Get(event, "summary", ""))
        description == Lower(Get(event, "description", ""))
    IN  IF Get(event, "status", "") = "cancelled" THEN Returned(FALSE)
        ELSE IF MyResponse(attendees) = "declined" THEN Returned(FALSE)
        ELSE IF HasSkipKeyword(title, description) THEN Returned(FALSE)
        ELSE IF Len(attendees) < MinAttendees THEN Returned(FALSE)
        ELSE Returned(TRUE)

\* _should_prepare_meeting
ShouldPrepareMeeting(event) ==
    LET startDict == Get(event, "start", EmptyDict)
        endDict   == Get(event, "end", EmptyDict)
        hasStart  == "dateTime" \in DOMAIN startDict
        hasEnd    == "dateTime" \in DOMAIN endDict
    IN  IF IsAllDayEvent(event) THEN Returned(FALSE)
        ELSE IF hasStart /\ hasEnd
        THEN LET start_dt == FromIsoformat(ReplaceZ(startDict["dateTime"]))
                 end_dt   == FromIsoformat(ReplaceZ(endDict["dateTime"]))
             IN  IF ~start_dt.ok \/ ~end_dt.ok THEN Raised("ValueError")
                 ELSE IF IsTooShort(start_dt.utc, end_dt.utc)
                      THEN Returned(FALSE)
                      ELSE ShouldPrepareRest(event)
        ELSE ShouldPrepareRest(event)

\* _is_external_meeting with the internal domains compared as configured
IsExternalMeetingCaseSensitive(meeting, internalDomains) ==
    \E i \in 1..Len(meeting["attendees"]) :
        LET attendee_email == meeting["attendees"][i]
        IN  /\ Contains("@", attendee_email)
            /\ \A j \in 1..Len(internalDomains) :
                   Lower(SplitSecond(attendee_email, "@")) # internalDomains[j]

\* _is_external_meeting
IsExternalMeeting(meeting, internalDomains) ==
    \E i \in 1..Len(meeting["attendees"]) :
        LET attendee_email == meeting["attendees"][i]
        IN  /\ Contains("@", attendee_email)
            /\ \A j \in 1..Len(internalDomains) :
                   Lower(SplitSecond(attendee_email, "@")) # Lower(internalDomains[j])

AttendeeEmail(a) == Get(a, "email", "")
HasEmail(a) == Get(a, "email", "") # ""

\* _parse_event: the meeting dict, or the exception the parse of the start raises
ParseEvent(event) ==
    LET attendees  == Get(event, "attendees", <<>>)
        startDict  == Get(event, "start", EmptyDict)
    IN  IF "dateTime" \notin DOMAIN startDict THEN Raised("AttributeError")
        ELSE IF ~FromIsoformat(ReplaceZ(startDict["dateTime"])).ok
             THEN Raised("ValueError")
        ELSE Returned(
               [id          |-> Get(event, "id", ""),
                title       |-> Get(event, "summary", "Untitled Meeting"),
                description |-> Get(event, "description", ""),
                start_time  |-> FromIsoformat(ReplaceZ(startDict["dateTime"])).utc,
                attendees   |-> MapSeq(AttendeeEmail, SelectSeq(attendees, HasEmail)),
                location    |-> Get(event, "location", ""),
                organizer   |-> Get(Get(event, "organizer", EmptyDict), "email", ""),
                html_link   |-> Get(event, "htmlLink", "")])

\* get_upcoming_meetings, lines 34-35 of the loop body: the meeting appended
\* for an event that _should_prepare_meeting accepted.
ClassifiedMeeting(event, internalDomains) ==
    LET parsed == ParseEvent(event)
    IN  IF parsed.exc # "none" THEN parsed
        ELSE Returned(parsed.ret @@
                      ("is_client_meeting" :>
                           IsExternalMeeting(parsed.ret, internalDomains)))

(***************************************************************************)
(* Raw calendar events the calendar service may deliver.                   *)
(***************************************************************************)
TenAM == 10 * 3600
Noon  == 12 * 3600
PlusTwoHours == 2 * 3600

StartTimes == {IsoZ(TenAM), IsoOff(Noon, PlusTwoHours)}
EndTimes   == {IsoZ(TenAM + 899), IsoZ(TenAM + 900),
               IsoOff(Noon + 840, PlusTwoHours), IsoZ(TenAM + 3600)}

StartDicts ==
    {EmptyDict, [date |-> "2024-11-07"],
     [date |-> "2024-11-07", dateTime |-> IsoZ(TenAM)]}
    \cup {[dateTime |-> t] : t \in StartTimes \cup {Garbage}}

EndDicts ==
    {EmptyDict, [date |-> "2024-11-08"]}
    \cup {[dateTime |-> t] : t \in EndTimes \cup {Garbage}}

Attendees ==
    {[email |-> "me@co.com", self |-> TRUE, responseStatus |-> "accepted"],
     [email |-> "me@co.com", self |-> TRUE, responseStatus |-> "declined"],
     [email |-> "bob@acme.com", responseStatus |-> "needsAction"],
     [email |-> "Alice@CO.COM", responseStatus |-> "accepted"]}

IsSelf(a) == Get(a, "self", FALSE)

\* The calendar owner appears at most once in an attendee list.
AttendeeLists ==
    {l \in UNION {[1..n -> Attendees] : n \in 0..MaxAttendees} :
        Cardinality({i \in 1..Len(l) : IsSelf(l[i])}) <= 1}

Summaries    == {"Weekly Standup", "Q4 Planning with Acme Corp", "Team LUNCH"}
Descriptions == {"Agenda: roadmap review", "Then Happy Hour"}
Statuses     == {"confirmed", "cancelled"}

\* A key that may be missing from a dict.
Optional(key, values) == {EmptyDict} \cup {key :> v : v \in values}

Events ==
    {("start" :> s) @@ ("end" :> e) @@ ("status" :> st) @@ a @@ t @@ d :
        s \in StartDicts, e \in EndDicts, st \in Statuses,
        a \in Optional("attendees", AttendeeLists),
        t \in Optional("summary", Summaries),
        d \in Optional("description", Descriptions)}

InternalDomainConfigs == {<<"gmail.com">>, <<"Co.Com">>, <<"co.com", "ACME.com">>}

(***************************************************************************)
(* Text helpers of GmailTool: re.findall and re.sub over ASCII text.       *)
(***************************************************************************)
Chars(s) == {SubSeq(s, i, i) : i \in 1..Len(s)}

Digits    == "0123456789"
WordChars == Chars(LowerChars) \cup Chars(UpperChars) \cup Chars(Digits) \cup {"_"}
Whitespace == {" ", "\t", "\n", "\r"}

\* re.findall(r'\b\w+\b', s): the maximal runs of word characters, in order;
\* cur is the run being read.
RECURSIVE FindWords(_, _)
FindWords(s, cur) ==
    IF s = "" THEN (IF cur = "" THEN <<>> ELSE <<cur>>)
    ELSE IF Head(s) \in WordChars THEN FindWords(Tail(s), cur \o Head(s))
    ELSE (IF cur = "" THEN <<>> ELSE <<cur>>) \o FindWords(Tail(s), "")

\* s with its leading run of non-whitespace characters removed
RECURSIVE DropNonSpace(_)
DropNonSpace(s) ==
    IF s = "" \/ Head(s) \in Whitespace THEN s ELSE DropNonSpace(Tail(s))

\* re.sub(r'http\S+', '', s)
RECURSIVE StripUrls(_)
StripUrls(s) ==
    IF s = "" THEN ""
    ELSE IF /\ Len(s) > 4
            /\ SubSeq(s, 1, 4) = "http"
            /\ SubSeq(s, 5, 5) \notin Whitespace
         THEN StripUrls(DropNonSpace(SubSeq(s, 5, Len(s))))
         ELSE Head(s) \o StripUrls(Tail(s))

DigitValue(c) == (CHOOSE i \in 1..10 : SubSeq(Digits, i, i) = c) - 1

\* int(re.findall(r'\d+', s)[0]): the value of the first run of digits of s,
\* -1 when s holds no digit; acc is the value read so far, -1 before the run.
RECURSIVE FirstNumber(_, _)
FirstNumber(s, acc) ==
    IF s = "" THEN acc
    ELSE IF Head(s) \in Chars(Digits)
         THEN FirstNumber(Tail(s), (IF acc < 0 THEN 0 ELSE acc * 10) + DigitValue(Head(s)))
         ELSE IF acc >= 0 THEN acc ELSE FirstNumber(Tail(s), acc)

\* seq[:n]
Take(seq, n) == SubSeq(seq, 1, IF Len(seq) < n THEN Len(seq) ELSE n)

\* The elements of seq without repetition, each at its first occurrence.
RECURSIVE Unique(_, _)
Unique(seq, seen) ==
    IF seq = <<>> THEN <<>>
    ELSE IF Head(seq) \in seen THEN Unique(Tail(seq), seen)
         ELSE <<Head(seq)>> \o Unique(Tail(seq), seen \cup {Head(seq)})

(***************************************************************************)
(* GmailTool: keyword extraction                                           *)
(***************************************************************************)
base_stop_words ==
    {"meeting", "sync", "call", "discussion",
     "weekly", "monthly", "daily", "standup", "stand-up", "stand",
     "the", "and", "or", "with", "for", "about", "on", "in", "at",
     "a", "an", "of", "to", "from", "by", "up"}

search_stop_words == {"review", "update", "planning", "check-in", "checkin"}

MaxQueryKeywords == 4
MaxContextKeywords == 8

\* line 273 without the length test
IsKeywordAnyLength(w, stop_words) == w \notin stop_words

\* lines 271-274: w not in stop_words and len(w) > 2
IsKeyword(w, stop_words) == w \notin stop_words /\ Len(w) > 2

\* _extract_keywords
ExtractKeywords(text, include_common_words) ==
    LET stop_words == IF include_common_words
                      THEN base_stop_words
                      ELSE base_stop_words \cup search_stop_words
        words == FindWords(Lower(text), "")
        Keep(w) == IsKeyword(w, stop_words)
    IN  Take(SelectSeq(words, Keep), MaxQueryKeywords)

\* _extract_meeting_context_keywords without lines 303-309
ExtractMeetingContextKeywordsRepeating(m) ==
    LET title       == Get(m, "title", "")
        description == Get(m, "description", "")
        title_keywords == IF title # "" THEN ExtractKeywords(title, TRUE) ELSE <<>>
        desc_keywords  == IF description # ""
                          THEN ExtractKeywords(StripUrls(description), TRUE)
                          ELSE <<>>
    IN  Take(title_keywords \o desc_keywords, MaxContextKeywords)

\* _extract_meeting_context_keywords
ExtractMeetingContextKeywords(m) ==
    LET title       == Get(m, "title", "")
        description == Get(m, "description", "")
        title_keywords == IF title # "" THEN ExtractKeywords(title, TRUE) ELSE <<>>
        desc_keywords  == IF description # ""
                          THEN ExtractKeywords(StripUrls(description), TRUE)
                          ELSE <<>>
    IN  Take(Unique(title_keywords \o desc_keywords, {}), MaxContextKeywords)

(***************************************************************************)
(* GmailTool: the search query.                                            *)
(***************************************************************************)
\* sep.join(parts)
RECURSIVE Join(_, _)
Join(parts, sep) ==
    IF parts = <<>> THEN ""
    ELSE IF Len(parts) = 1 THEN parts[1]
    ELSE parts[1] \o sep \o Join(Tail(parts), sep)

\* [x for item in items for x in (f(item), g(item))]
RECURSIVE Pairs(_, _, _)
Pairs(f(_), g(_), items) ==
    IF items = <<>> THEN <<>>
    ELSE <<f(Head(items)), g(Head(items))>> \o Pairs(f, g, Tail(items))

\* f"({' OR '.join(queries)})"
OrClause(queries) == "(" \o Join(queries, " OR ") \o ")"

MaxQueryAttendees == 10

\* lines 122-125 without the [:10]
AttendeeQueriesUncut(attendees) ==
    LET From(email) == "from:" \o email
        To(email)   == "to:" \o email
    IN  Pairs(From, To, attendees)

\* lines 122-125: attendee_queries
AttendeeQueries(attendees) ==
    LET From(email) == "from:" \o email
        To(email)   == "to:" \o email
    IN  Pairs(From, To, Take(attendees, MaxQueryAttendees))

\* lines 112-115: the domain clause
DomainClause(customer_domain) ==
    OrClause(<<"from:@" \o customer_domain, "to:@" \o customer_domain>>)

\* lines 139-143 and 148-152: keyword_queries
KeywordQueries(keywords) ==
    LET Subject(kw) == "subject:\"" \o kw \o "\""
        Quoted(kw)  == "\"" \o kw \o "\""
    IN  Pairs(Subject, Quoted, keywords)

\* lines 130-152 with the project keywords tested before the customer name
TopicPartsKeywordsFirst(m, project_keywords, customer_name) ==
    IF project_keywords # <<>>
    THEN <<OrClause(KeywordQueries(project_keywords))>>
    ELSE IF customer_name # ""
    THEN <<OrClause(KeywordQueries(<<customer_name>>))>>
    ELSE LET keywords == ExtractKeywords(m["title"], FALSE)
         IN  IF keywords # <<>> THEN <<OrClause(KeywordQueries(keywords))>>
             ELSE <<>>

\* lines 130-152: the customer name or keyword clause, as a list of at most
\* one part
TopicParts(m, project_keywords, customer_name) ==
    IF customer_name # ""
    THEN <<OrClause(KeywordQueries(<<customer_name>>))>>
    ELSE IF project_keywords # <<>>
    THEN <<OrClause(KeywordQueries(project_keywords))>>
    ELSE LET keywords == ExtractKeywords(m["title"], FALSE)
         IN  IF keywords # <<>> THEN <<OrClause(KeywordQueries(keywords))>>
             ELSE <<>>

\* lines 108-152: query_parts before the recency and folder terms
IdentityAndTopicParts(m, project_keywords, customer_name, customer_domain) ==
    IF customer_domain # ""
    THEN <<DomainClause(customer_domain)>>
    ELSE (IF AttendeeQueries(m["attendees"]) # <<>>
          THEN <<OrClause(AttendeeQueries(m["attendees"]))>>
          ELSE <<>>)
         \o TopicParts(m, project_keywords, customer_name)

\* _build_search_query
BuildSearchQuery(m, days, project_keywords, customer_name, customer_domain) ==
    Join(IdentityAndTopicParts(m, project_keywords, customer_name, customer_domain)
         \o <<"newer_than:" \o ToString(days) \o "d", "-in:spam", "-in:trash">>,
         " ")

(***************************************************************************)
(* GmailTool: calendar notification emails.                                *)
(***************************************************************************)
calendar_senders ==
    {"calendar-notification@google.com", "no-reply@calendar.google.com",
     "noreply@calendar.google.com", "calendar@google.com",
     "notify@calendar.google.com"}

calendar_subject_patterns ==
    {"invitation:", "accepted:", "declined:", "updated:", "canceled:",
     "cancelled:", "response:", "has invited you", "has updated",
     "has accepted", "has declined", "has tentatively accepted",
     "invitation for", "accepted invitation", "declined invitation",
     "event reminder:", "reminder:", "upcoming event"}

calendar_content_patterns ==
    {"view your event at", "going?", "yes, no, maybe?", "event details",
     "join the meeting", "add this event to your calendar",
     "calendar invitation", "meeting invitation", "has invited you to",
     "rsvp:", "accept this invitation"}

calendar_links == {"calendar.google.com", "meet.google.com"}

ContentPrefixLength == 500
MinContentMatches == 2
ShortBodyLength == 300

\* line 229: content_to_check
ContentToCheck(snippet, body) == snippet \o " " \o Take(body, ContentPrefixLength)

\* line 232: pattern_matches
PatternMatches(content) ==
    Cardinality({pattern \in calendar_content_patterns : Contains(pattern, content)})

\* line 235 with a single content pattern taken as enough
EnoughPatternMatchesOne(matches) == matches >= 1

\* line 235
EnoughPatternMatches(matches) == matches >= MinContentMatches

\* line 239: len(body) < 300
IsShortBody(body) == Len(body) < ShortBodyLength

\* _is_calendar_notification_email
IsCalendarNotificationEmail(email) ==
    LET subject    == Lower(Get(email, "subject", ""))
        from_email == Lower(Get(email, "from", ""))
        body       == Lower(Get(email, "body", ""))
        snippet    == Lower(Get(email, "snippet", ""))
    IN  \/ \E sender \in calendar_senders : Contains(sender, from_email)
        \/ \E pattern \in calendar_subject_patterns : Contains(pattern, subject)
        \/ EnoughPatternMatches(PatternMatches(ContentToCheck(snippet, body)))
        \/ /\ IsShortBody(body)
           /\ \E link \in calendar_links : Contains(link, body)

(***************************************************************************)
(* GmailTool: relevance scoring.  Scores are exact multiples of            *)
(* 1 / ScoreUnit, fine enough for every term the code adds: 0.4, 0.25,     *)
(* 0.25 * k / n for n up to 8, 0.1, 0.05 and the product by 0.3.           *)
(***************************************************************************)
ScoreUnit == 840 * 1000

AttendeeWeight == (2 * ScoreUnit) \div 5    \* 0.4
CustomerWeight == ScoreUnit \div 4          \* 0.25
ContextWeight  == ScoreUnit \div 4          \* 0.25
RecentBonus    == ScoreUnit \div 10         \* 0.1
WeekBonus      == ScoreUnit \div 20         \* 0.05

recent_indicators == {"hour", "minute", "today", "yesterday"}

\* _is_recent
IsRecent(date_str, days) ==
    LET date_lower == Lower(date_str)
        num        == FirstNumber(date_str, -1)
    IN  \/ \E indicator \in recent_indicators : Contains(indicator, date_lower)
        \/ /\ Contains("day", date_lower)
           /\ num >= 0
           /\ num <= days

RecentDays == 3
WeekDays == 7

\* lines 559-564: the recency term
RecencyScore(date_str) ==
    IF IsRecent(date_str, RecentDays) THEN RecentBonus
    ELSE IF IsRecent(date_str, WeekDays) THEN WeekBonus
    ELSE 0

\* lines 524-532 without the lower() of the email's from and to
AttendeeMatchCaseSensitive(email, meeting_attendees) ==
    LET email_from == Get(email, "from", "")
        email_to   == Get(email, "to", "")
    IN  \E i \in 1..Len(meeting_attendees) :
            \/ Contains(meeting_attendees[i], email_from)
            \/ Contains(meeting_attendees[i], email_to)

\* lines 524-532: some attendee (lower-cased at line 515) occurs in the
\* lower-cased from or to
AttendeeMatch(email, meeting_attendees) ==
    LET email_from == Lower(Get(email, "from", ""))
        email_to   == Lower(Get(email, "to", ""))
    IN  \E i \in 1..Len(meeting_attendees) :
            \/ Contains(meeting_attendees[i], email_from)
            \/ Contains(meeting_attendees[i], email_to)

\* line 521: email_text
EmailText(email) ==
    Lower(Get(email, "subject", "") \o " " \o Get(email, "body", ""))

\* line 536
CustomerMatch(email_text, customer) ==
    customer # "" /\ Contains(Lower(customer), email_text)

\* line 544: matching_context
MatchingContext(email_text, keywords) ==
    Cardinality({i \in 1..Len(keywords) : Contains(keywords[i], email_text)})

\* lines 543-548 with the whole weight given for any match
ContextScoreBinary(matching, keywords) ==
    IF keywords = <<>> \/ matching = 0 THEN 0 ELSE ContextWeight

\* lines 543-548: 0.25 * min(matching_context / len(keywords), 1.0)
ContextScore(matching, keywords) ==
    IF keywords = <<>> \/ matching = 0 THEN 0
    ELSE IF matching >= Len(keywords) THEN ContextWeight
    ELSE (ContextWeight * matching) \div Len(keywords)

\* lines 552-554: the penalty condition
PenaltyApplies(customer, attendee_match, customer_match, context_match) ==
    customer # "" /\ ~attendee_match /\ ~(customer_match /\ context_match)

\* lines 556-564 with the penalty applied after the recency term is added
ScoreWithPenaltyLast(base, penalised, recency) ==
    IF penalised THEN ((base + recency) * 3) \div 10 ELSE base + recency

\* lines 556-564: score *= 0.3, then the recency term is added
ScoreWithPenalty(base, penalised, recency) ==
    (IF penalised THEN (base * 3) \div 10 ELSE base) + recency

\* The thousandths at which Python's round(score, 2) rounds a score lying
\* exactly between two hundredths upwards: the doubles that the sums of
\* lines 520-564 produce for them lie above the midpoint (or on it, next to
\* an even hundredth).  Every other midpoint the sums can reach rounds
\* downwards.
TiesRoundedUp == {65, 95, 115, 145, 225, 375, 525, 575, 775, 825, 875}

\* line 566: round(score, 2), in hundredths
Round2(local) ==
    LET hundredth == ScoreUnit \div 100
        q == local \div hundredth
        r == local % hundredth
    IN  IF 2 * r < hundredth THEN q
        ELSE IF 2 * r > hundredth THEN q + 1
        ELSE IF (local \div (ScoreUnit \div 1000)) \in TiesRoundedUp THEN q + 1
        ELSE q

\* lines 509-510: the customer name the scorer works with
EffectiveCustomerName(name, domain) ==
    IF name = "" /\ domain # "" THEN SplitFirst(domain, ".") ELSE name

\* line 515: meeting_attendees
MeetingAttendees(m) == MapSeq(Lower, m["attendees"])

\* line 520 with the score starting from the relevance_score the email dict
\* already carries
InitialScoreCarried(email) ==
    Get(email, "relevance_score", 0) * (ScoreUnit \div 100)

\* line 520: score = 0.0
InitialScore(email) == 0

\* lines 520-569, the loop body on one email: the local score at line 566
\* (not yet rounded) and the email dict as the body leaves it
ScoreOne(email, meeting_attendees, customer, keywords) ==
    LET email_text  == EmailText(email)
        attendee    == AttendeeMatch(email, meeting_attendees)
        customerHit == CustomerMatch(email_text, customer)
        matching    == MatchingContext(email_text, keywords)
        context     == keywords # <<>> /\ matching > 0
        penalised   == PenaltyApplies(customer, attendee, customerHit, context)
        base        == InitialScore(email)
                       + (IF attendee THEN AttendeeWeight ELSE 0)
                       + (IF customerHit THEN CustomerWeight ELSE 0)
                       + ContextScore(matching, keywords)
        local       == ScoreWithPenalty(base, penalised,
                                        RecencyScore(Get(email, "date", "")))
        reason      == IF penalised
                       THEN "filter_reason" :> "Missing meeting context keywords"
                       ELSE EmptyDict
    IN  [local |-> local,
         dict  |-> [relevance_score |-> Round2(local),
                    customer_match  |-> customerHit,
                    context_match   |-> context,
                    attendee_match  |-> attendee] @@ reason @@ email]

\* line 577 with the threshold a factor of ten too low
PassesThresholdLoose(hundredths) == hundredths >= 4

\* line 577: e['relevance_score'] >= 0.4
PassesThreshold(hundredths) == hundredths >= 40

\* list.sort(key=relevance_score) ascending: x goes after every element
\* that is not above it
RECURSIVE InsertAscending(_, _, _)
InsertAscending(sorted, x, store) ==
    IF sorted = <<>> THEN <<x>>
    ELSE IF store[x]["relevance_score"] < store[Head(sorted)]["relevance_score"]
         THEN <<x>> \o sorted
         ELSE <<Head(sorted)>> \o InsertAscending(Tail(sorted), x, store)

\* line 573 as an ascending sort followed by a reversal: x goes ahead of the
\* elements it ties with
RECURSIVE InsertDescendingTiesFirst(_, _, _)
InsertDescendingTiesFirst(sorted, x, store) ==
    IF sorted = <<>> THEN <<x>>
    ELSE IF store[x]["relevance_score"] >= store[Head(sorted)]["relevance_score"]
         THEN <<x>> \o sorted
         ELSE <<Head(sorted)>> \o InsertDescendingTiesFirst(Tail(sorted), x, store)

\* line 573: list.sort(key=relevance_score, reverse=True) is stable: x goes
\* after every element that is not below it
RECURSIVE InsertDescending(_, _, _)
InsertDescending(sorted, x, store) ==
    IF sorted = <<>> THEN <<x>>
    ELSE IF store[x]["relevance_score"] > store[Head(sorted)]["relevance_score"]
         THEN <<x>> \o sorted
         ELSE <<Head(sorted)>> \o InsertDescending(Tail(sorted), x, store)

RECURSIVE SortByScore(_, _)
SortByScore(ids, store) ==
    IF ids = <<>> THEN <<>>
    ELSE InsertDescending(SortByScore(SubSeq(ids, 1, Len(ids) - 1), store),
                          ids[Len(ids)], store)

\* lines 519-570: the loop over the list ids; store holds the email dicts
\* and local the score each had at line 566
RECURSIVE ScoreLoop(_, _, _, _, _, _)
ScoreLoop(store, local, ids, meeting_attendees, customer, keywords) ==
    IF ids = <<>> THEN [store |-> store, local |-> local]
    ELSE LET one == ScoreOne(store[Head(ids)], meeting_attendees, customer, keywords)
         IN  ScoreLoop([store EXCEPT ![Head(ids)] = one.dict],
                       [local EXCEPT ![Head(ids)] = one.local],
                       Tail(ids), meeting_attendees, customer, keywords)

\* lines 572-581: sort, then keep the emails at or above the threshold
ScoreResult(store, ids) ==
    LET Passes(id) == PassesThreshold(store[id]["relevance_score"])
    IN  SelectSeq(SortByScore(ids, store), Passes)

\* _score_emails: the email dicts, the local scores and the list returned
ScoreEmailsCall(store, ids, m, name, domain) ==
    LET loop == ScoreLoop(store, [id \in DOMAIN store |-> 0], ids,
                          MeetingAttendees(m),
                          EffectiveCustomerName(name, domain),
                          ExtractMeetingContextKeywords(m))
    IN  [store |-> loop.store, local |-> loop.local,
         ret |-> ScoreResult(loop.store, ids)]

(***************************************************************************)
(* GmailTool: the stages of search_relevant_emails around the scorer.  An  *)
(* answer of a collaborator (the mail service, the generative model) is a  *)
(* returned value or a raised exception.                                   *)
(***************************************************************************)
\* Python's None
None == [none |-> TRUE]

\* _get_message_details with the exception of the mail service let through
GetMessageDetailsRaising(answer) == answer

\* _get_message_details, lines 417-454: the email dict built from the answer
\* of messages().get(), None when the call raises
GetMessageDetails(answer) ==
    IF answer.exc # "none" THEN Returned(None) ELSE answer

\* lines 84-85 with the exception raised again
PipelineExceptRaising(exc) == Raised(exc)

\* lines 84-85: except Exception: return []
PipelineExcept(exc) == Returned(<<>>)

MaxBatch == 50

\* str.upper()
CharUpper(c) ==
    IF Contains(c, LowerChars)
    THEN LET i == CHOOSE j \in 1..26 : SubSeq(LowerChars, j, j) = c
         IN  SubSeq(UpperChars, i, i)
    ELSE c

RECURSIVE Upper(_)
Upper(s) == IF s = "" THEN "" ELSE CharUpper(Head(s)) \o Upper(Tail(s))

\* str.strip()
RECURSIVE LStrip(_)
LStrip(s) == IF s # "" /\ Head(s) \in Whitespace THEN LStrip(Tail(s)) ELSE s

RECURSIVE RStrip(_)
RStrip(s) ==
    IF s # "" /\ SubSeq(s, Len(s), Len(s)) \in Whitespace
    THEN RStrip(SubSeq(s, 1, Len(s) - 1))
    ELSE s

Strip(s) == RStrip(LStrip(s))

\* line 397: [int(n) for n in re.findall(r'\b\d+\b', response_text)], the
\* maximal runs of word characters that are all digits
IsNumber(w) == \A i \in 1..Len(w) : Contains(SubSeq(w, i, i), Digits)

ResponseNumbers(response_text) ==
    LET runs == SelectSeq(FindWords(response_text, ""), IsNumber)
    IN  [i \in 1..Len(runs) |-> FirstNumber(runs[i], -1)]

\* lines 390-407: the emails the response selects
SelectRelevant(emails_to_filter, response_text) ==
    IF Upper(response_text) = "NONE" THEN <<>>
    ELSE LET InRange(num) == 1 <= num /\ num <= Len(emails_to_filter)
             numbers == SelectSeq(ResponseNumbers(response_text), InRange)
         IN  [i \in 1..Len(numbers) |-> emails_to_filter[numbers[i]]]

\* lines 409-413 with no email kept when the classifier fails
LlmFallbackNone(emails_list) == <<>>

\* lines 409-413: except Exception: return emails
LlmFallback(emails_list) == emails_list

\* _filter_emails_with_llm; answer is what model.invoke(prompt) does
FilterEmailsWithLlm(emails_list, answer) ==
    IF emails_list = <<>> THEN <<>>
    ELSE IF answer.exc # "none" THEN LlmFallback(emails_list)
    ELSE SelectRelevant(Take(emails_list, MaxBatch), Strip(answer.ret))

\* lines 63-70 without the notification test
KeepCandidateUnfiltered(email_data) == email_data # None

\* lines 63-70: the fetched mail is appended unless the fetch failed or the
\* mail is a calendar notification
KeepCandidate(email_data) ==
    /\ email_data # None
    /\ ~IsCalendarNotificationEmail(email_data)

\* lines 61 and 73 with the loop left after its first message
MoreToFetchNever(index, messages) == FALSE

\* line 61: for msg in messages, another message after the one at index
MoreToFetch(index, messages) == index < Len(messages)

(***************************************************************************)
(* CalendarTool: the listings and the filters of get_meetings_by_date_range *)
(***************************************************************************)
\* _has_attendee_from_domain
HasAttendeeFromDomain(m, domain) ==
    \E i \in 1..Len(m["attendees"]) :
        /\ Contains("@", m["attendees"][i])
        /\ Lower(SplitSecond(m["attendees"][i], "@")) = Strip(Lower(domain))

\* _matches_project_keywords
MatchesProjectKeywords(m, keywords) ==
    LET search_text == Lower(Get(m, "title", "")) \o " "
                       \o Lower(Get(m, "description", ""))
    IN  \E i \in 1..Len(keywords) : Contains(Lower(keywords[i]), search_text)

\* _matches_customer_name
MatchesCustomerName(m, name) ==
    LET customer_lower == Lower(name)
    IN  /\ name # ""
        /\ \/ Contains(customer_lower, Lower(Get(m, "title", "")))
           \/ Contains(customer_lower, Lower(Get(m, "description", "")))
           \/ \E i \in 1..Len(m["attendees"]) :
                  /\ Contains("@", m["attendees"][i])
                  /\ LET domain == Lower(SplitSecond(m["attendees"][i], "@"))
                     IN  \/ Contains(customer_lower, domain)
                         \/ customer_lower = SplitFirst(domain, ".")

\* lines 94-106: should_include; the upcoming listing has no filter
ShouldInclude(m, args) ==
    IF args.method = "upcoming" THEN TRUE
    ELSE IF args.customer_domain # ""
    THEN HasAttendeeFromDomain(m, args.customer_domain)
    ELSE IF args.project_keywords # <<>>
    THEN MatchesProjectKeywords(m, args.project_keywords)
    ELSE IF args.customer_name # ""
    THEN MatchesCustomerName(m, args.customer_name)
    ELSE TRUE

\* lines 40-41 and 111-113: except Exception: return []
ListingExcept(exc) == Returned(<<>>)

\* one turn of the loop of lines 32-36 and 88-109: the meetings list after
\* the event, or the exception raised on it
ProcessEventCall(e, sofar, args) ==
    LET prepare == ShouldPrepareMeeting(e)
    IN  IF prepare.exc # "none" THEN prepare
        ELSE IF ~prepare.ret THEN Returned(sofar)
        ELSE LET m == ClassifiedMeeting(e, args.internal_domains)
             IN  IF m.exc # "none" THEN m
                 ELSE IF ShouldInclude(m.ret, args)
                      THEN Returned(Append(sofar, m.ret))
                      ELSE Returned(sofar)

(***************************************************************************)
(* Inputs of the scorer: meetings, customer filters and candidate emails   *)
(* as _get_message_details builds them.                                    *)
(***************************************************************************)
ScoreMeetings ==
    {[title |-> "Roadmap Sync", description |-> "",
      attendees |-> <<"me@co.com", "Bob@Acme.com">>],
     [title |-> "Acme Q4 Review planning",
      description |-> "Agenda https://x.io/roadmap budget roadmap",
      attendees |-> <<"me@co.com", "Bob@Acme.com">>],
     [title |-> "Weekly Sync", description |-> "",
      attendees |-> <<"me@co.com">>]}

\* customer_name and customer_domain: no customer filter, a customer name,
\* and a customer domain without a name
CustomerFilters == {<<"", "">>, <<"Acme", "">>, <<"", "acme.com">>}

\* from and to of an email: from an attendee (in another letter case), to
\* an attendee, and neither
FromAttendee == [from |-> "Bob <BOB@acme.com>", to |-> "sales@co.com"]
ToAttendee   == [from |-> "billing@vendor.io", to |-> "Me@co.com"]
BothAttendees == [from |-> "Bob <BOB@acme.com>", to |-> "Me@co.com"]
OtherSender  == [from |-> "billing@vendor.io", to |-> "sales@co.com"]

\* subject and body: naming the customer, naming agenda words, both, neither
CustomerText == [subject |-> "Acme licence", body |-> "Invoice."]
AgendaText   == [subject |-> "Roadmap draft", body |-> "Budget review."]
BothText     == [subject |-> "Hello", body |-> "ROADMAP for acme."]
PlainText    == [subject |-> "Hello", body |-> "Invoice."]

EmailTexts == {CustomerText, AgendaText, BothText, PlainText}

\* the Date header: within 3 days, within 7 days, neither
RecentDate == "2 days ago"
WeekDate   == "5 days ago"
OldDate    == "Mon, 4 Nov 2024 10:00:00 +0000"

EmailDates == {RecentDate, WeekDate, OldDate}

Email(header, text, date) == header @@ text @@ ("date" :> date)

\* Mail from outside the meeting in every text and date; mail from or to an
\* attendee in the texts and dates with the highest and lowest scores.
EmailInputs ==
    {Email(OtherSender, t, d) : t \in EmailTexts, d \in EmailDates}
    \cup {Email(FromAttendee, PlainText, d) : d \in {RecentDate, OldDate}}
    \cup {Email(BothAttendees, BothText, d) : d \in {RecentDate, OldDate}}
    \cup {Email(ToAttendee, PlainText, OldDate)}

(***************************************************************************)
(* Inputs of search_relevant_emails: its arguments and the answers of the  *)
(* mail service and of the generative model.                               *)
(***************************************************************************)
MaxMessages == 2

Colleagues ==
    <<"a03@co.com", "a04@co.com", "a05@co.com", "a06@co.com", "a07@co.com",
      "a08@co.com", "a09@co.com", "a10@co.com", "a11@co.com", "a12@co.com">>

\* meetings with two, with eleven and with no attendees
PipelineMeetings ==
    {[title |-> "Roadmap Sync", description |-> "",
      attendees |-> <<"me@co.com", "Bob@Acme.com">>],
     [title |-> "Acme Q4 Review planning",
      description |-> "Agenda https://x.io/roadmap budget roadmap",
      attendees |-> <<"me@co.com", "Bob@Acme.com">> \o SubSeq(Colleagues, 1, 9)],
     [title |-> "Weekly Sync", description |-> "", attendees |-> <<>>]}

ProjectKeywordLists == {<<>>, <<"budget", "q4 plan">>}

\* days and max_results
SearchWindows == {[days |-> 7, max_results |-> 2], [days |-> 14, max_results |-> 1]}

\* customer_name and customer_domain: none, either, both
PipelineFilters == CustomerFilters \cup {<<"Acme", "acme.com">>}

PipelineArgs ==
    {[meeting |-> m, days |-> w.days, max_results |-> w.max_results,
      project_keywords |-> k, customer_name |-> f[1], customer_domain |-> f[2]] :
        m \in PipelineMeetings, w \in SearchWindows,
        k \in ProjectKeywordLists, f \in PipelineFilters}

\* the answers of messages().list(): an exception, or a list of message ids
\* no longer than maxResults
ListAnswers(max_results) ==
    {Raised("HttpError")}
    \cup {Returned([i \in 1..n |-> i]) : n \in {k \in 0..MaxMessages : k <= max_results * 2}}

CalendarSender == [from |-> "Google Calendar <Calendar-Notification@google.com>",
                   to |-> "me@co.com"]
InvitationText == [subject |-> "Invitation: Roadmap Sync", body |-> "Join the meeting"]
AcceptedText   == [subject |-> "Accepted: Roadmap Sync", body |-> "Bob has accepted."]

\* the emails of the mailbox, as _get_message_details builds them
MailboxEmails ==
    {Email(FromAttendee, PlainText, OldDate) @@ ("snippet" :> "Invoice."),
     Email(FromAttendee, BothText, RecentDate) @@ ("snippet" :> "ROADMAP"),
     Email(OtherSender, CustomerText, RecentDate) @@ ("snippet" :> "Invoice."),
     Email(CalendarSender, InvitationText, RecentDate) @@ ("snippet" :> "Going?"),
     Email(FromAttendee, AcceptedText, RecentDate) @@ ("snippet" :> "")}

\* the answers of messages().get()
GetAnswers == {Raised("HttpError")} \cup {Returned(e) : e \in MailboxEmails}

\* the answers of model.invoke(prompt): an exception, or the response text
InvokeAnswers ==
    {Raised("ResourceExhausted"), Returned(" none\n"), Returned("2, 1"),
     Returned("1, 1 and 9"), Returned("I cannot tell")}

(***************************************************************************)
(* Inputs of _is_calendar_notification_email.                              *)
(***************************************************************************)
RECURSIVE Dots(_)
\* n dots
Dots(n) ==
    IF n <= 0 THEN ""
    ELSE IF n = 1 THEN "."
    ELSE Dots(n \div 2) \o Dots(n - (n \div 2))

\* s followed by dots up to n characters
Pad(s, n) == s \o Dots(n - Len(s))

NotificationSenders ==
    {"Bob <bob@acme.com>", "Google Calendar <Calendar-Notification@google.com>",
     "noreply@calendar.google.com"}

NotificationSubjects ==
    {"Budget review", "Re: Invitation: Roadmap Sync", "Bob has accepted"}

NotificationSnippets == {"", "Going?", "Yes, No, Maybe? RSVP: today"}

\* bodies on both sides of the 300 characters of line 239 and of the 500
\* characters of line 229
NotificationBodies ==
    {"See you there.",
     "Join: https://meet.google.com/abc",
     Pad("https://Calendar.Google.com/x ", 299),
     Pad("https://calendar.google.com/x ", 300),
     Pad("Event details attached. ", 300),
     Pad("Event details: meet.google.com/abc ", 300),
     Pad("Going? ", 490) \o " RSVP: now",
     Pad("Going? ", 496) \o " RSVP: now"}

NotificationInputs ==
    {[from |-> f, to |-> "me@co.com", subject |-> s, snippet |-> n, body |-> b,
      date |-> RecentDate] :
        f \in NotificationSenders, s \in NotificationSubjects,
        n \in NotificationSnippets, b \in NotificationBodies}

(***************************************************************************)
(* Inputs of the listing methods of CalendarTool.                          *)
(***************************************************************************)
MaxEvents == 2

Me == [email |-> "me@co.com", self |-> TRUE, responseStatus |-> "accepted"]

Times == ("start" :> [dateTime |-> IsoZ(TenAM)])
         @@ ("end" :> [dateTime |-> IsoZ(TenAM + 3600)])

\* eligible events, then one whose start does not parse, one with no start
\* time at all, one with an attendee that has no address, and an all-day one
ListingEvents ==
    {Times @@ [id |-> "acme", summary |-> "Q4 Planning with Acme Corp",
               description |-> "Agenda: roadmap review",
               attendees |-> <<Me, [email |-> "bob@acme.com"]>>],
     Times @@ [id |-> "internal", summary |-> "Roadmap sync",
               attendees |-> <<Me, [email |-> "Alice@CO.COM"]>>],
     Times @@ [id |-> "contract", summary |-> "Contract",
               attendees |-> <<[email |-> "carol@ACME.io"], Me>>],
     [id |-> "garbage", summary |-> "Acme sync",
      start |-> [dateTime |-> Garbage], end |-> [dateTime |-> IsoZ(TenAM)],
      attendees |-> <<Me, [email |-> "bob@acme.com"]>>],
     [id |-> "nostart", summary |-> "Acme sync", start |-> EmptyDict,
      attendees |-> <<Me, [email |-> "bob@acme.com"]>>],
     Times @@ [id |-> "room", summary |-> "Acme roadmap",
               attendees |-> <<[email |-> "bob@acme.com"],
                               [displayName |-> "Room 4", resource |-> TRUE]>>],
     [id |-> "allday", summary |-> "Acme roadmap day",
      start |-> [date |-> "2024-11-07"], end |-> [date |-> "2024-11-08"],
      attendees |-> <<Me, [email |-> "bob@acme.com"]>>]}

\* the filters of get_meetings_by_date_range: none, each alone, and several
ListingFilters ==
    {[customer_domain |-> "", project_keywords |-> <<>>, customer_name |-> ""],
     [customer_domain |-> " Acme.com", project_keywords |-> <<>>, customer_name |-> ""],
     [customer_domain |-> "", project_keywords |-> <<"Budget", "ROADMAP">>,
      customer_name |-> ""],
     [customer_domain |-> "", project_keywords |-> <<>>, customer_name |-> "Acme"],
     [customer_domain |-> "", project_keywords |-> <<"Budget", "ROADMAP">>,
      customer_name |-> "Acme"],
     [customer_domain |-> "co.com", project_keywords |-> <<"contract">>,
      customer_name |-> "Acme"]}

ListingArgs ==
    {[method |-> "upcoming", internal_domains |-> <<"co.com">>,
      customer_domain |-> "", project_keywords |-> <<>>, customer_name |-> ""]}
    \cup {[method |-> "date_range", internal_domains |-> <<"co.com">>,
           customer_domain |-> f.customer_domain,
           project_keywords |-> f.project_keywords,
           customer_name |-> f.customer_name] : f \in ListingFilters}

\* the answers of events().list(): an exception, or the items in backend order
EventListAnswers ==
    {Raised("HttpError")}
    \cup {Returned(l) : l \in UNION {[1..n -> ListingEvents] : n \in 0..MaxEvents}}

(***************************************************************************)
(* Inputs of the keyword extraction.                                       *)
(***************************************************************************)
MaxWords == 6

WordList == <<"Alpha", "beta_2", "GAMMA", "delta", "Epsilon", "zeta", "eta">>

\* the first n words of WordList, space-separated
WordTexts == {Join(Take(WordList, n), " ") : n \in 0..MaxWords}

KeywordTexts ==
    WordTexts
    \cup {"Acme Q4 Roadmap Budget Review planning",
          "Weekly Sync", "Check-in: UPDATE on the Acme/ACME roadmap!",
          "acme acme Acme", "Stand-up & checkin (v2) re: IT",
          "Re: Budget_2025, pricing; legal-review"}

KeywordDescriptions ==
    {"", "Review the budget https://x.io/roadmap-plan then pricing, contracts",
     "Pricing contracts legal timeline https://x.io owners",
     "See http://x.io/acme-budget", "ALPHA Beta_2 alpha acme"}

(***************************************************************************)
(* State                                                                   *)
(***************************************************************************)
VARIABLES
    internal_domains,  \* CalendarTool.internal_domains
    event,             \* the raw event the loop of get_upcoming_meetings is at
    calPc,             \* "event", "checked", "classified", "failed"; "idle"
    prep,              \* outcome of _should_prepare_meeting(event)
    meeting,           \* the meeting dict appended for the event
    mailPc,            \* "candidates", "scored", "rescored"; "idle"
    mailMeeting,       \* _score_emails: the argument meeting
    customer_name,     \* _score_emails: the argument customer_name, "" for None
    customer_domain,   \* _score_emails: the argument customer_domain, "" for None
    mailStore,         \* the email dicts, by object identity
    emails,            \* _score_emails: the argument emails, a list of identities
    score,             \* _score_emails: the local score of each email at line 566
    scored,            \* _score_emails: the list returned
    pipePc,            \* "start", "query", "fetching", "fetched", "filtered",
                       \* "returned"; "idle"
    pipeArgs,          \* search_relevant_emails: its arguments
    query,             \* search_relevant_emails: query
    listAnswer,        \* what messages().list().execute() did
    messages,          \* search_relevant_emails: messages
    getAnswers,        \* what messages().get().execute() did, call by call
    details,           \* what _get_message_details returned for each message
                       \* so far: an email dict or None
    email_threads,     \* search_relevant_emails: email_threads, a list of
                       \* positions in details
    llmAnswer,         \* what model.invoke did in _filter_emails_with_llm
    calls,             \* the collaborators and stages called so far, in order
    pipeResult,        \* outcome of search_relevant_emails
    notePc,            \* "start", "classified"; "idle"
    noteEmail,         \* _is_calendar_notification_email: email
    noteResult,        \* outcome of _is_calendar_notification_email
    listPc,            \* "start", "loop", "returned"; "idle"
    listArgs,          \* the listing method called and its arguments
    eventsAnswer,      \* what events().list().execute() did
    events,            \* get_upcoming_meetings, get_meetings_by_date_range: events
    eventIndex,        \* the number of events the loop has been through
    meetings,          \* the meetings list of the listing methods
    listResult,        \* outcome of the listing method
    kwPc,              \* "start", "extracted", "again", "context"; "idle"
    kwText,            \* _extract_keywords: text
    kwMode,            \* _extract_keywords: include_common_words
    kwDescription,     \* the description of the meeting whose title is kwText
    keywords,          \* what _extract_keywords returned
    keywordsAgain,     \* what it returned on its own result, space-joined
    context_keywords   \* what _extract_meeting_context_keywords returned

calVars  == <<internal_domains, event, calPc, prep, meeting>>
mailVars == <<mailPc, mailMeeting, customer_name, customer_domain,
              mailStore, emails, score, scored>>
pipeVars == <<pipePc, pipeArgs, query, listAnswer, messages, getAnswers, details,
              email_threads, llmAnswer, calls, pipeResult>>
noteVars == <<notePc, noteEmail, noteResult>>
listVars == <<listPc, listArgs, eventsAnswer, events, eventIndex, meetings, listResult>>
kwVars == <<kwPc, kwText, kwMode, kwDescription, keywords, keywordsAgain,
            context_keywords>>
vars == <<calVars, mailVars, pipeVars, noteVars, listVars, kwVars>>

NotCalled == Raised("not called")

CalIdle ==
    /\ internal_domains = <<"gmail.com">>
    /\ event = EmptyDict
    /\ calPc = "idle"
    /\ prep = NotCalled
    /\ meeting = EmptyDict

MailIdle ==
    /\ mailPc = "idle"
    /\ mailMeeting = EmptyDict
    /\ customer_name = ""
    /\ customer_domain = ""
    /\ mailStore = <<>>
    /\ emails = <<>>
    /\ score = <<>>
    /\ scored = <<>>

KwIdle ==
    /\ kwPc = "idle"
    /\ kwText = ""
    /\ kwMode = FALSE
    /\ kwDescription = ""
    /\ keywords = <<>>
    /\ keywordsAgain = <<>>
    /\ context_keywords = <<>>

ListIdle ==
    /\ listPc = "idle"
    /\ listArgs = EmptyDict
    /\ eventsAnswer = NotCalled
    /\ events = <<>>
    /\ eventIndex = 0
    /\ meetings = <<>>
    /\ listResult = NotCalled

NoteIdle ==
    /\ notePc = "idle"
    /\ noteEmail = EmptyDict
    /\ noteResult = NotCalled

PipeIdle ==
    /\ pipePc = "idle"
    /\ pipeArgs = EmptyDict
    /\ query = ""
    /\ listAnswer = NotCalled
    /\ messages = <<>>
    /\ getAnswers = <<>>
    /\ details = <<>>
    /\ email_threads = <<>>
    /\ llmAnswer = NotCalled
    /\ calls = <<>>
    /\ pipeResult = NotCalled

(***************************************************************************)
(* The eligibility classifier on one event of a calendar listing.          *)
(***************************************************************************)
CalInit ==
    /\ internal_domains \in InternalDomainConfigs
    /\ event \in Events
    /\ calPc = "event"
    /\ prep = NotCalled
    /\ meeting = EmptyDict
    /\ MailIdle
    /\ PipeIdle
    /\ NoteIdle
    /\ ListIdle
    /\ KwIdle

\* calendar_tool.py line 33: if self._should_prepare_meeting(event)
ShouldPrepareStep ==
    /\ calPc = "event"
    /\ prep' = ShouldPrepareMeeting(event)
    /\ calPc' = IF prep'.exc # "none" THEN "failed" ELSE "checked"
    /\ UNCHANGED <<internal_domains, event, meeting, mailVars, pipeVars, noteVars, listVars, kwVars>>

\* calendar_tool.py lines 34-36: parse, classify, append
ParseClassifyStep ==
    /\ calPc = "checked"
    /\ prep = Returned(TRUE)
    /\ LET m == ClassifiedMeeting(event, internal_domains)
       IN  /\ meeting' = IF m.exc = "none" THEN m.ret ELSE EmptyDict
           /\ calPc' = IF m.exc = "none" THEN "classified" ELSE "failed"
    /\ UNCHANGED <<internal_domains, event, prep, mailVars, pipeVars, noteVars, listVars, kwVars>>

CalNext == ShouldPrepareStep \/ ParseClassifyStep

SpecCalendar == CalInit /\ [][CalNext]_vars

(***************************************************************************)
(* The relevance scorer on one candidate list.                             *)
(***************************************************************************)
ScoreInit ==
    /\ CalIdle
    /\ PipeIdle
    /\ NoteIdle
    /\ ListIdle
    /\ KwIdle
    /\ mailPc = "candidates"
    /\ mailMeeting \in ScoreMeetings
    /\ \E filter \in CustomerFilters :
           /\ customer_name = filter[1]
           /\ customer_domain = filter[2]
    /\ \E n \in 0..MaxEmails :
           /\ mailStore \in [1..n -> EmailInputs]
           /\ emails = [i \in 1..n |-> i]
    /\ score = <<>>
    /\ scored = <<>>

\* _score_emails
ScoreEmails ==
    /\ mailPc = "candidates"
    /\ \E call \in {ScoreEmailsCall(mailStore, emails, mailMeeting,
                                     customer_name, customer_domain)} :
           /\ mailStore' = call.store
           /\ score' = call.local
           /\ scored' = call.ret
    /\ mailPc' = "scored"
    /\ UNCHANGED <<mailMeeting, customer_name, customer_domain, emails, calVars, pipeVars, noteVars, listVars, kwVars>>

\* _score_emails called again with the same arguments, on the email dicts as
\* the first call left them
ScoreEmailsAgain ==
    /\ mailPc = "scored"
    /\ \E call \in {ScoreEmailsCall(mailStore, emails, mailMeeting,
                                     customer_name, customer_domain)} :
           /\ mailStore' = call.store
           /\ score' = call.local
           /\ scored' = call.ret
    /\ mailPc' = "rescored"
    /\ UNCHANGED <<mailMeeting, customer_name, customer_domain, emails, calVars, pipeVars, noteVars, listVars, kwVars>>

\* _score_emails called again for the same meeting without the customer name,
\* on the email dicts as the first call with a customer name left them
ScoreEmailsUnfiltered ==
    /\ mailPc = "scored"
    /\ customer_name # ""
    /\ \E call \in {ScoreEmailsCall(mailStore, emails, mailMeeting, "", "")} :
           /\ mailStore' = call.store
           /\ score' = call.local
           /\ scored' = call.ret
    /\ customer_name' = ""
    /\ customer_domain' = ""
    /\ mailPc' = "unfiltered"
    /\ UNCHANGED <<mailMeeting, emails, calVars, pipeVars, noteVars, listVars, kwVars>>

ScoreNext == ScoreEmails \/ ScoreEmailsAgain \/ ScoreEmailsUnfiltered

SpecScorer == ScoreInit /\ [][ScoreNext]_vars

(***************************************************************************)
(* search_relevant_emails on one meeting.                                  *)
(***************************************************************************)
PipeInit ==
    /\ CalIdle
    /\ MailIdle
    /\ NoteIdle
    /\ ListIdle
    /\ KwIdle
    /\ pipePc = "start"
    /\ pipeArgs \in PipelineArgs
    /\ query = ""
    /\ listAnswer = NotCalled
    /\ messages = <<>>
    /\ getAnswers = <<>>
    /\ details = <<>>
    /\ email_threads = <<>>
    /\ llmAnswer = NotCalled
    /\ calls = <<>>
    /\ pipeResult = NotCalled

\* line 41
BuildQuery ==
    /\ pipePc = "start"
    /\ query' = BuildSearchQuery(pipeArgs.meeting, pipeArgs.days,
                                 pipeArgs.project_keywords,
                                 pipeArgs.customer_name, pipeArgs.customer_domain)
    /\ calls' = Append(calls, "build_query")
    /\ pipePc' = "query"
    /\ UNCHANGED <<pipeArgs, listAnswer, messages, getAnswers, details,
                   email_threads, llmAnswer, pipeResult, calVars, mailVars, noteVars, listVars, kwVars>>

\* lines 45-57: the retrieval call
ListMessages ==
    /\ pipePc = "query"
    /\ \E answer \in ListAnswers(pipeArgs.max_results) :
         /\ listAnswer' = answer
         /\ IF answer.exc # "none"
           THEN /\ pipeResult' = PipelineExcept(answer.exc)
                /\ UNCHANGED messages
           ELSE /\ messages' = answer.ret
                /\ pipeResult' = IF answer.ret = <<>> THEN Returned(<<>>)
                                 ELSE pipeResult
    /\ calls' = Append(calls, "list")
    /\ pipePc' = IF pipeResult' # NotCalled THEN "returned" ELSE "fetching"
    /\ UNCHANGED <<pipeArgs, query, getAnswers, details, email_threads, llmAnswer,
                   calVars, mailVars, noteVars, listVars, kwVars>>

\* lines 61-71: one turn of the loop over messages
FetchMessage ==
    /\ pipePc = "fetching"
    /\ \E answer \in GetAnswers :
         \E email_data \in {GetMessageDetails(answer)} :
         /\ getAnswers' = Append(getAnswers, answer)
         /\ IF email_data.exc # "none"
           THEN /\ pipeResult' = PipelineExcept(email_data.exc)
                /\ pipePc' = "returned"
                /\ calls' = Append(calls, "get")
                /\ UNCHANGED <<details, email_threads>>
           ELSE /\ details' = Append(details, email_data.ret)
                /\ email_threads' =
                       IF KeepCandidate(email_data.ret)
                       THEN Append(email_threads, Len(details) + 1)
                       ELSE email_threads
                /\ calls' = calls \o (IF email_data.ret # None
                                      THEN <<"get", "is_notification">>
                                      ELSE <<"get">>)
                /\ pipePc' = IF MoreToFetch(Len(details) + 1, messages)
                             THEN "fetching" ELSE "fetched"
                /\ UNCHANGED pipeResult
    /\ UNCHANGED <<pipeArgs, query, listAnswer, messages, llmAnswer,
                   calVars, mailVars, noteVars, listVars, kwVars>>

\* lines 77-78 with candidates: the classifier stage
LlmFilter ==
    /\ pipePc = "fetched"
    /\ email_threads # <<>>
    /\ \E answer \in InvokeAnswers :
           /\ llmAnswer' = answer
           /\ email_threads' = FilterEmailsWithLlm(email_threads, answer)
    /\ calls' = Append(calls, "llm")
    /\ pipePc' = "filtered"
    /\ UNCHANGED <<pipeArgs, query, listAnswer, messages, getAnswers, details,
                   pipeResult, calVars, mailVars, noteVars, listVars, kwVars>>

\* line 77 without candidates: the classifier is not called
SkipLlmFilter ==
    /\ pipePc = "fetched"
    /\ email_threads = <<>>
    /\ pipePc' = "filtered"
    /\ UNCHANGED <<pipeArgs, query, listAnswer, messages, getAnswers, details,
                   email_threads, llmAnswer, calls, pipeResult, calVars, mailVars, noteVars, listVars, kwVars>>

\* lines 80-82: scoring and the first max_results of its result
ScoreAndReturn ==
    /\ pipePc = "filtered"
    /\ \E call \in {ScoreEmailsCall(details, email_threads, pipeArgs.meeting,
                                     pipeArgs.customer_name,
                                     pipeArgs.customer_domain)} :
           /\ details' = call.store
           /\ pipeResult' = Returned(Take(call.ret, pipeArgs.max_results))
    /\ calls' = calls \o <<"score", "top_n">>
    /\ pipePc' = "returned"
    /\ UNCHANGED <<pipeArgs, query, listAnswer, messages, getAnswers,
                   email_threads, llmAnswer, calVars, mailVars, noteVars, listVars, kwVars>>

(***************************************************************************)
(* _is_calendar_notification_email on one email.                           *)
(***************************************************************************)
NoteInit ==
    /\ CalIdle
    /\ MailIdle
    /\ PipeIdle
    /\ ListIdle
    /\ KwIdle
    /\ notePc = "start"
    /\ noteEmail \in NotificationInputs
    /\ noteResult = NotCalled

ClassifyEmail ==
    /\ notePc = "start"
    /\ noteResult' = Returned(IsCalendarNotificationEmail(noteEmail))
    /\ notePc' = "classified"
    /\ UNCHANGED <<noteEmail, calVars, mailVars, pipeVars, listVars, kwVars>>

NoteNext == ClassifyEmail

SpecNotification == NoteInit /\ [][NoteNext]_vars

(***************************************************************************)
(* get_upcoming_meetings and get_meetings_by_date_range on one listing.    *)
(***************************************************************************)
ListInit ==
    /\ CalIdle
    /\ MailIdle
    /\ PipeIdle
    /\ NoteIdle
    /\ KwIdle
    /\ listPc = "start"
    /\ listArgs \in ListingArgs
    /\ eventsAnswer = NotCalled
    /\ events = <<>>
    /\ eventIndex = 0
    /\ meetings = <<>>
    /\ listResult = NotCalled

\* lines 19-30 and 65-86: the events().list() call
ListEvents ==
    /\ listPc = "start"
    /\ \E answer \in EventListAnswers :
           /\ eventsAnswer' = answer
           /\ IF answer.exc # "none"
              THEN /\ listResult' = ListingExcept(answer.exc)
                   /\ listPc' = "returned"
                   /\ UNCHANGED events
              ELSE /\ events' = answer.ret
                   /\ listPc' = "loop"
                   /\ UNCHANGED listResult
    /\ UNCHANGED <<listArgs, eventIndex, meetings, calVars, mailVars, pipeVars,
                   noteVars, kwVars>>

\* lines 32-36 and 88-109: one turn of the loop over events
ProcessEvent ==
    /\ listPc = "loop"
    /\ eventIndex < Len(events)
    /\ \E call \in {ProcessEventCall(events[eventIndex + 1], meetings, listArgs)} :
           IF call.exc # "none"
           THEN /\ listResult' = ListingExcept(call.exc)
                /\ listPc' = "returned"
                /\ UNCHANGED meetings
           ELSE /\ meetings' = call.ret
                /\ UNCHANGED <<listResult, listPc>>
    /\ eventIndex' = eventIndex + 1
    /\ UNCHANGED <<listArgs, eventsAnswer, events, calVars, mailVars, pipeVars,
                   noteVars, kwVars>>

\* lines 38 and 109: return meetings
ReturnMeetings ==
    /\ listPc = "loop"
    /\ eventIndex = Len(events)
    /\ listResult' = Returned(meetings)
    /\ listPc' = "returned"
    /\ UNCHANGED <<listArgs, eventsAnswer, events, eventIndex, meetings,
                   calVars, mailVars, pipeVars, noteVars, kwVars>>

ListNext == ListEvents \/ ProcessEvent \/ ReturnMeetings

SpecListing == ListInit /\ [][ListNext]_vars

(***************************************************************************)
(* _extract_keywords and _extract_meeting_context_keywords on one text.    *)
(***************************************************************************)
KwInit ==
    /\ CalIdle
    /\ MailIdle
    /\ PipeIdle
    /\ NoteIdle
    /\ ListIdle
    /\ kwPc = "start"
    /\ kwText \in KeywordTexts
    /\ kwMode \in BOOLEAN
    /\ kwDescription \in KeywordDescriptions
    /\ keywords = <<>>
    /\ keywordsAgain = <<>>
    /\ context_keywords = <<>>

\* _extract_keywords(text, include_common_words)
Extract ==
    /\ kwPc = "start"
    /\ keywords' = ExtractKeywords(kwText, kwMode)
    /\ kwPc' = "extracted"
    /\ UNCHANGED <<kwText, kwMode, kwDescription, keywordsAgain, context_keywords,
                   calVars, mailVars, pipeVars, noteVars, listVars>>

\* _extract_keywords(' '.join(keywords), include_common_words)
ExtractAgain ==
    /\ kwPc = "extracted"
    /\ keywordsAgain' = ExtractKeywords(Join(keywords, " "), kwMode)
    /\ kwPc' = "again"
    /\ UNCHANGED <<kwText, kwMode, kwDescription, keywords, context_keywords,
                   calVars, mailVars, pipeVars, noteVars, listVars>>

\* _extract_meeting_context_keywords(meeting)
ExtractContext ==
    /\ kwPc = "again"
    /\ context_keywords' =
           ExtractMeetingContextKeywords([title |-> kwText,
                                          description |-> kwDescription])
    /\ kwPc' = "context"
    /\ UNCHANGED <<kwText, kwMode, kwDescription, keywords, keywordsAgain,
                   calVars, mailVars, pipeVars, noteVars, listVars>>

KwNext == Extract \/ ExtractAgain \/ ExtractContext

SpecKeywords == KwInit /\ [][KwNext]_vars

PipeNext ==
    \/ BuildQuery \/ ListMessages \/ FetchMessage
    \/ LlmFilter \/ SkipLlmFilter \/ ScoreAndReturn

SpecPipeline == PipeInit /\ [][PipeNext]_vars

(***************************************************************************)
(* The vetoes of the eligibility chain, as the specification words them.   *)
(***************************************************************************)
SkipKeywordSet == {"standup", "stand-up", "lunch", "coffee", "social",
                   "birthday", "happy hour", "team building"}

\* The instant an ISO-8601 timestamp denotes, in seconds.
Instant(ts) == ts.wall - ts.off

AllDayStart(e) == "start" \in DOMAIN e /\ "date" \in DOMAIN e["start"]

TimesPresent(e) ==
    /\ "start" \in DOMAIN e /\ "dateTime" \in DOMAIN e["start"]
    /\ "end" \in DOMAIN e /\ "dateTime" \in DOMAIN e["end"]

TimesParse(e) ==
    TimesPresent(e) =>
        e["start"]["dateTime"].text = "iso" /\ e["end"]["dateTime"].text = "iso"

ShortDuration(e) ==
    /\ TimesPresent(e)
    /\ e["start"]["dateTime"].text = "iso"
    /\ e["end"]["dateTime"].text = "iso"
    /\ Instant(e["end"]["dateTime"]) - Instant(e["start"]["dateTime"]) < 15 * 60

Cancelled(e) == "status" \in DOMAIN e /\ e["status"] = "cancelled"

EventAttendees(e) == IF "attendees" \in DOMAIN e THEN e["attendees"] ELSE <<>>

SelfDeclined(e) ==
    \E i \in 1..Len(EventAttendees(e)) :
        LET a == EventAttendees(e)[i]
        IN  /\ "self" \in DOMAIN a /\ a["self"]
            /\ "responseStatus" \in DOMAIN a /\ a["responseStatus"] = "declined"

TextHasSkipKeyword(e, key) ==
    /\ key \in DOMAIN e
    /\ \E kw \in SkipKeywordSet : Contains(kw, Lower(e[key]))

MentionsSkipKeyword(e) ==
    TextHasSkipKeyword(e, "summary") \/ TextHasSkipKeyword(e, "description")

FewAttendees(e) == Len(EventAttendees(e)) < 2

AnyVeto(e) ==
    \/ AllDayStart(e) \/ ShortDuration(e) \/ Cancelled(e)
    \/ SelfDeclined(e) \/ MentionsSkipKeyword(e) \/ FewAttendees(e)

Checked == calPc \in {"checked", "classified", "failed"}

(***************************************************************************)
(* C1: should_prepare(event) returns true exactly when none of the six     *)
(* vetoes applies (all-day; both times present and under 15 minutes apart; *)
(* cancelled; self declined; skip keyword in title or description; fewer   *)
(* than 2 attendees): for every event, any veto gives false and the        *)
(* absence of all six gives true.                                          *)
(***************************************************************************)
C1_VetoChainDecides == Checked => prep = Returned(~AnyVeto(event))

\* The same statement over the events whose timestamps parse.
VetoChainDecidesParseable ==
    (Checked /\ (AllDayStart(event) \/ TimesParse(event)))
        => prep = Returned(~AnyVeto(event))

(***************************************************************************)
(* C8: every event whose start and end timestamps are both present and     *)
(* less than 15 minutes apart is rejected, whatever its attendee count,    *)
(* status, responses, title and description.                               *)
(***************************************************************************)
C8_ShortEventsRejected ==
    (Checked /\ ShortDuration(event)) => prep = Returned(FALSE)

\* An event of 14 minutes 59 seconds that no other veto touches was rejected.
C8_Witness ==
    /\ Checked /\ ShortDuration(event) /\ prep = Returned(FALSE)
    /\ ~AllDayStart(event) /\ ~Cancelled(event) /\ ~SelfDeclined(event)
    /\ ~MentionsSkipKeyword(event) /\ ~FewAttendees(event)
    /\ Instant(event["end"]["dateTime"]) - Instant(event["start"]["dateTime"]) = 899

(***************************************************************************)
(* C9: every event whose start is an all-day date is rejected, whatever    *)
(* its other fields.                                                       *)
(***************************************************************************)
C9_AllDayEventsRejected ==
    (Checked /\ AllDayStart(event)) => prep = Returned(FALSE)

\* An all-day event that no other veto touches (its start also carries a
\* time of day, an hour before its end) was rejected.
C9_Witness ==
    /\ Checked /\ AllDayStart(event) /\ prep = Returned(FALSE)
    /\ ~ShortDuration(event) /\ ~Cancelled(event) /\ ~SelfDeclined(event)
    /\ ~MentionsSkipKeyword(event) /\ ~FewAttendees(event)
    /\ TimesPresent(event)

(***************************************************************************)
(* C10: every event whose title or description contains a skip keyword as  *)
(* a case-insensitive substring is rejected (should_prepare returns        *)
(* false), however many attendees it has.                                  *)
(***************************************************************************)
C10_SkipKeywordEventsRejected ==
    (Checked /\ MentionsSkipKeyword(event)) => prep = Returned(FALSE)

\* The same statement over the events whose timestamps parse.
SkipKeywordEventsRejectedParseable ==
    (Checked /\ MentionsSkipKeyword(event)
        /\ (AllDayStart(event) \/ TimesParse(event)))
        => prep = Returned(FALSE)

(***************************************************************************)
(* C6: every meeting record the classifier produces carries a priority,    *)
(* HIGH exactly when is_client_meeting is true, otherwise MEDIUM with at   *)
(* least 5 attendees and LOW with fewer.                                   *)
(***************************************************************************)
C6_MeetingsCarryPriority ==
    calPc = "classified" =>
        /\ "priority" \in DOMAIN meeting
        /\ (meeting["priority"] = "HIGH") <=> meeting["is_client_meeting"]
        /\ ~meeting["is_client_meeting"] =>
               meeting["priority"] =
                   IF Len(meeting["attendees"]) >= 5 THEN "MEDIUM" ELSE "LOW"

(***************************************************************************)
(* C7: is_client_meeting is true exactly when some attendee address has a  *)
(* domain that, compared case-insensitively, is not among the configured   *)
(* internal domains.                                                       *)
(***************************************************************************)
HasDomain(addr) == Contains("@", addr)
DomainOf(addr)  == SubSeq(addr, IndexOf("@", addr) + 1, Len(addr))
InternalDomainSet == {Lower(internal_domains[i]) : i \in 1..Len(internal_domains)}

SomeExternalAttendee(m) ==
    \E i \in 1..Len(m["attendees"]) :
        /\ HasDomain(m["attendees"][i])
        /\ Lower(DomainOf(m["attendees"][i])) \notin InternalDomainSet

C7_ClientMeetingIffExternalDomain ==
    calPc = "classified" =>
        (meeting["is_client_meeting"] <=> SomeExternalAttendee(meeting))

\* A meeting whose attendee domains differ from the configured internal
\* domain only in letter case was classified as not a client meeting.
C7_Witness ==
    /\ calPc = "classified"
    /\ ~meeting["is_client_meeting"]
    /\ \E i \in 1..Len(meeting["attendees"]) :
           /\ HasDomain(meeting["attendees"][i])
           /\ \A j \in 1..Len(internal_domains) :
                  DomainOf(meeting["attendees"][i]) # internal_domains[j]

(***************************************************************************)
(* The scorer's result, as the specification words it.                     *)
(***************************************************************************)
Scored == mailPc = "scored"

Candidates == DOMAIN mailStore

Returned_ids == {scored[i] : i \in 1..Len(scored)}

\* relevance_score of a candidate, in hundredths
RelevanceScore(id) == mailStore[id]["relevance_score"]

\* customer_name is set
CustomerNameSet == customer_name # ""

\* customer_name is set, given or derived from the customer domain
CustomerSet == customer_name # "" \/ customer_domain # ""

\* Some attendee address of the meeting occurs, letter case aside, in the
\* from or the to of the candidate.
NamesAttendee(id) ==
    \E i \in 1..Len(mailMeeting["attendees"]) :
        LET address == Lower(mailMeeting["attendees"][i])
        IN  \/ Contains(address, Lower(Get(mailStore[id], "from", "")))
            \/ Contains(address, Lower(Get(mailStore[id], "to", "")))

\* customer_match=true, context_match=false, attendee_match=false
CustomerHitAlone(id) ==
    /\ mailStore[id]["customer_match"]
    /\ ~mailStore[id]["context_match"]
    /\ ~mailStore[id]["attendee_match"]

\* No attendee match, and not both a customer match and a context match.
Uncorroborated(id) ==
    /\ ~mailStore[id]["attendee_match"]
    /\ ~(mailStore[id]["customer_match"] /\ mailStore[id]["context_match"])

\* The recency contribution: 0.10 within 3 days, 0.05 within 7 days.
RecencyContribution(id) ==
    LET date_str == Get(mailStore[id], "date", "")
    IN  IF date_str = RecentDate THEN ScoreUnit \div 10
        ELSE IF date_str = WeekDate THEN ScoreUnit \div 20
        ELSE 0

\* The attendee and customer contributions, 0.40 and 0.25; the context
\* contribution of a candidate with context_match=false is nothing.
MatchContributions(id) ==
    (IF mailStore[id]["attendee_match"] THEN (ScoreUnit * 2) \div 5 ELSE 0)
    + (IF mailStore[id]["customer_match"] THEN ScoreUnit \div 4 ELSE 0)

\* C2: every email the scorer returns has a relevance_score from 0.40 to
\* 1.00, and the returned list is in non-increasing order of relevance_score;
\* no email whose rounded score is below 0.40 is returned.
C2_ReturnedScoresInRangeAndSorted ==
    Scored =>
        /\ Returned_ids \subseteq Candidates
        /\ \A id \in Returned_ids :
               RelevanceScore(id) >= 40 /\ RelevanceScore(id) <= 100
        /\ \A i \in 1..(Len(scored) - 1) :
               RelevanceScore(scored[i]) >= RelevanceScore(scored[i + 1])
        /\ \A id \in Candidates : RelevanceScore(id) < 40 => id \notin Returned_ids

\* Two candidates are returned, the one listed second ahead of the one
\* listed first because it scores higher.
C2_Witness ==
    /\ Scored
    /\ scored = <<2, 1>>
    /\ RelevanceScore(2) > RelevanceScore(1)

\* C3 as claimed: with a customer name set, a candidate with a customer hit
\* alone ends with an unrounded score of 0.3 times the sum of its attendee,
\* customer, context and recency contributions.
C3_PenaltyScalesAllContributions ==
    Scored =>
        \A id \in Candidates :
            (CustomerNameSet /\ CustomerHitAlone(id)) =>
                10 * score[id] = 3 * (MatchContributions(id) + RecencyContribution(id))

\* C3 as amended: with a customer name set, a candidate with a customer hit
\* alone ends with an unrounded score of 0.3 times the sum of its attendee,
\* customer and context contributions, plus its whole recency contribution.
C3_PenaltyScalesMatchContributions ==
    Scored =>
        \A id \in Candidates :
            (CustomerNameSet /\ CustomerHitAlone(id)) =>
                10 * (score[id] - RecencyContribution(id)) = 3 * MatchContributions(id)

\* A candidate with a customer hit alone and a recent date has been scored.
C3_Witness ==
    /\ Scored
    /\ CustomerNameSet
    /\ \E id \in Candidates :
           /\ CustomerHitAlone(id)
           /\ RecencyContribution(id) > 0
           /\ score[id] > RecencyContribution(id)

\* C4: with a customer name set (given or derived from the domain), a
\* candidate with no attendee match that does not have both a customer match
\* and a context match is not in the scorer's output, whatever its date.
C4_UncorroboratedNeverReturned ==
    Scored =>
        \A id \in Candidates :
            (CustomerSet /\ Uncorroborated(id)) => id \notin Returned_ids

\* A candidate that names the customer, matches no context keyword, comes
\* from outside the meeting and is dated within 3 days has been scored,
\* while another candidate was returned.
C4_Witness ==
    /\ Scored
    /\ CustomerSet
    /\ \E id \in Candidates :
           /\ CustomerHitAlone(id)
           /\ RecencyContribution(id) = ScoreUnit \div 10
           /\ id \notin Returned_ids
    /\ Returned_ids # {}

\* C5: a candidate whose from or to contains an attendee address of the
\* meeting, letter case aside, gets attendee_match=true, no penalty, a
\* relevance_score of at least 0.40, and a place in the scorer's output.
C5_AttendeeMailAlwaysReturned ==
    Scored =>
        \A id \in Candidates :
            NamesAttendee(id) =>
                /\ mailStore[id]["attendee_match"]
                /\ "filter_reason" \notin DOMAIN mailStore[id]
                /\ RelevanceScore(id) >= 40
                /\ id \in Returned_ids

\* With a customer name set, a candidate from an attendee whose address is
\* written in another letter case, about nothing the meeting or the customer
\* names and with an old date, has been scored.
C5_Witness ==
    /\ Scored
    /\ CustomerSet
    /\ \E id \in Candidates :
           /\ NamesAttendee(id)
           /\ mailStore[id]["from"] = FromAttendee["from"]
           /\ ~mailStore[id]["customer_match"]
           /\ ~mailStore[id]["context_match"]
           /\ RecencyContribution(id) = 0
           /\ RelevanceScore(id) = 40

\* A start or end timestamp that is present and is not ISO-8601 text.
MalformedTime(e, key) ==
    /\ key \in DOMAIN e
    /\ "dateTime" \in DOMAIN e[key]
    /\ e[key]["dateTime"].text # "iso"

MalformedTimes(e) == MalformedTime(e, "start") \/ MalformedTime(e, "end")

(***************************************************************************)
(* C11: eligibility fails closed: should_prepare never raises, and for an  *)
(* event with a malformed start or end timestamp it yields false.          *)
(***************************************************************************)
C11_EligibilityFailsClosed ==
    Checked =>
        /\ prep.exc = "none"
        /\ MalformedTimes(event) => prep = Returned(FALSE)

\* The second run of the scorer on the same arguments has just returned.
SecondRun == mailPc = "scored" /\ mailPc' = "rescored"

(***************************************************************************)
(* C12: scoring is deterministic: a second run on the same candidate list  *)
(* with the same meeting, customer_name and customer_domain, applied to    *)
(* the records the first run processed, returns the same emails in the     *)
(* same order, each with the same relevance_score and match flags.         *)
(***************************************************************************)
C12_SecondRunAgrees ==
    [][SecondRun =>
          /\ scored' = scored
          /\ \A id \in DOMAIN mailStore :
                 /\ mailStore'[id]["relevance_score"] = mailStore[id]["relevance_score"]
                 /\ mailStore'[id]["attendee_match"] = mailStore[id]["attendee_match"]
                 /\ mailStore'[id]["customer_match"] = mailStore[id]["customer_match"]
                 /\ mailStore'[id]["context_match"] = mailStore[id]["context_match"]]_vars

\* A second run has returned an email and left out a penalised record that
\* carried its scores and its filter_reason into the run.
C12_Witness ==
    /\ mailPc = "rescored"
    /\ scored # <<>>
    /\ \E id \in DOMAIN mailStore :
           /\ "filter_reason" \in DOMAIN mailStore[id]
           /\ mailStore[id]["relevance_score"] > 0
           /\ \A i \in 1..Len(scored) : scored[i] # id

\* The first run of the scorer has just returned.
FirstRun == mailPc = "candidates" /\ mailPc' = "scored"

(***************************************************************************)
(* C13: the scorer does not mutate its inputs: when it returns, every      *)
(* candidate email record passed in, the candidate list and the meeting    *)
(* are field for field what they were before the call.                     *)
(***************************************************************************)
C13_InputsUnchanged ==
    [][FirstRun =>
          /\ mailStore' = mailStore
          /\ emails' = emails
          /\ mailMeeting' = mailMeeting]_vars

\* The place of a candidate in the list the scorer was given.
InputPosition(id) == CHOOSE i \in 1..Len(emails) : emails[i] = id

(***************************************************************************)
(* C14: the scorer's sort is stable on ties: two returned emails with      *)
(* equal relevance_score appear in the order they had in the candidate     *)
(* list.                                                                   *)
(***************************************************************************)
C14_TiesKeepInputOrder ==
    Scored =>
        \A i, j \in 1..Len(scored) :
            (i < j /\ RelevanceScore(scored[i]) = RelevanceScore(scored[j]))
                => InputPosition(scored[i]) < InputPosition(scored[j])

\* Two emails from different senders with the same relevance_score have
\* been returned.
C14_Witness ==
    /\ Scored
    /\ Len(scored) = 2
    /\ RelevanceScore(scored[1]) = RelevanceScore(scored[2])
    /\ mailStore[scored[1]]["from"] # mailStore[scored[2]]["from"]

(***************************************************************************)
(* search_relevant_emails: what its stages are held to.                    *)
(***************************************************************************)
PipelineReturned == pipePc = "returned"

ClassifierFailed == llmAnswer.exc \notin {"none", "not called"}

RECURSIVE Positions(_, _)
\* the positions of details, from i on, that hold an email which is
\* not a calendar notification: the candidates that enter the classifier stage
Positions(i, fetched) ==
    IF i > Len(fetched) THEN <<>>
    ELSE (IF fetched[i] # None /\ ~IsCalendarNotificationEmail(fetched[i])
          THEN <<i>> ELSE <<>>) \o Positions(i + 1, fetched)

EnteredClassifier == Positions(1, details)

Called(stage) == \E i \in DOMAIN calls : calls[i] = stage

\* C15: when the generative classifier raises, the candidates that go on to
\* scoring are exactly those that entered the stage, in the same order, and
\* the pipeline scores them and returns a list, not an error.
C15_ClassifierFailureIsNoOp ==
    ClassifierFailed =>
        /\ email_threads = EnteredClassifier
        /\ pipePc \in {"filtered", "returned"}
        /\ PipelineReturned =>
               /\ pipeResult.exc = "none"
               /\ Called("score")
               /\ \A i \in DOMAIN email_threads :
                      "relevance_score" \in DOMAIN details[email_threads[i]]

\* the classifier raised on two candidates, both were scored and one of them
\* was returned
C15_Witness ==
    /\ ClassifierFailed
    /\ PipelineReturned
    /\ Len(email_threads) = 2
    /\ Len(pipeResult.ret) >= 1

RetrievalRaised == listAnswer.exc \notin {"none", "not called"}

\* C16: when the mail-search call raises, search_relevant_emails returns an
\* empty list and no exception leaves it; it goes no further in the pipeline.
C16_RetrievalFailureGivesEmptyList ==
    RetrievalRaised =>
        /\ PipelineReturned
        /\ pipeResult = Returned(<<>>)
        /\ calls = <<"build_query", "list">>

\* the mail-search call raised for a meeting that has attendees to search for
C16_Witness ==
    /\ RetrievalRaised
    /\ PipelineReturned
    /\ pipeArgs.meeting.attendees # <<>>
    /\ pipeResult.exc = "none"

DetailFetchRaised == \E i \in DOMAIN getAnswers : getAnswers[i].exc # "none"

\* C17: when the detail fetch of any retrieved message raises, the pipeline
\* returns an empty list for the meeting and no exception leaves it.
C17_DetailFetchFailureGivesEmptyList ==
    (DetailFetchRaised /\ PipelineReturned) => pipeResult = Returned(<<>>)

\* C17, as the code has it: a detail fetch that raises yields None for that
\* message alone; the message is never a candidate, the loop goes on to the
\* remaining messages, and the pipeline filters, scores and returns the
\* candidates whose fetch succeeded, with no exception leaving it.
C17_DetailFetchFailureSkipsMessage ==
    DetailFetchRaised =>
        /\ pipeResult.exc \in {"none", "not called"}
        /\ Len(details) = Len(getAnswers)
        /\ \A i \in DOMAIN getAnswers :
               getAnswers[i].exc # "none" => details[i] = None
        /\ \A k \in DOMAIN email_threads :
               getAnswers[email_threads[k]].exc = "none"
        /\ (pipePc = "fetching") <=> (Len(getAnswers) < Len(messages))
        /\ PipelineReturned =>
               /\ Len(getAnswers) = Len(messages)
               /\ Called("score")
               /\ \A k \in DOMAIN pipeResult.ret :
                      getAnswers[pipeResult.ret[k]].exc = "none"

\* the first detail fetch raised, the second did not, and the pipeline
\* returned the second message
C17_Witness ==
    /\ PipelineReturned
    /\ Len(getAnswers) = 2
    /\ getAnswers[1].exc # "none"
    /\ pipeResult = Returned(<<2>>)

\* the place of each stage in the order of lines 41-82
StageRank(stage) ==
    CASE stage = "build_query"     -> 1
      [] stage = "list"            -> 2
      [] stage = "get"             -> 3
      [] stage = "is_notification" -> 3
      [] stage = "llm"             -> 4
      [] stage = "score"           -> 5
      [] stage = "top_n"           -> 6

CountCalls(stage) == Cardinality({i \in DOMAIN calls : calls[i] = stage})

\* C18: the stages of a run follow one fixed order and none is entered twice:
\* the query is built first, the one retrieval call comes before any detail
\* fetch, there is one detail fetch per retrieved message, each followed at once
\* by the notification test of what it fetched, the classifier is called at
\* most once and only after every detail fetch, scoring comes after the
\* classifier stage and the top-N cut is last.
C18_StagesInFixedOrder ==
    /\ \A i \in DOMAIN calls : \A j \in DOMAIN calls :
           i < j =>
               /\ StageRank(calls[i]) <= StageRank(calls[j])
               /\ StageRank(calls[i]) = StageRank(calls[j]) =>
                      StageRank(calls[i]) = 3
    /\ \A i \in DOMAIN calls :
           calls[i] = "is_notification" => i > 1 /\ calls[i - 1] = "get"
    /\ CountCalls("list") <= 1
    /\ CountCalls("get") = Len(getAnswers)
    /\ CountCalls("get") <= Len(messages)
    /\ CountCalls("llm") <= 1
    /\ (Called("llm") \/ Called("score")) => CountCalls("get") = Len(messages)
    /\ Called("llm") <=> llmAnswer # NotCalled
    /\ Called("score") => pipePc = "returned" /\ calls[Len(calls)] = "top_n"
    /\ pipePc = "returned" => CountCalls("list") = 1

\* a run that went through every stage, with two detail fetches
C18_Witness ==
    /\ PipelineReturned
    /\ calls = <<"build_query", "list", "get", "is_notification",
                 "get", "is_notification", "llm", "score", "top_n">>

QueryBuilt == pipePc \notin {"idle", "start"}

StartsWith(s, prefix) ==
    Len(s) >= Len(prefix) /\ SubSeq(s, 1, Len(prefix)) = prefix

RECURSIVE IdentityTerms(_, _, _)
\* "from:a OR to:a" for attendees i..n, joined by " OR "
IdentityTerms(attendees, i, n) ==
    IF i > n THEN ""
    ELSE "from:" \o attendees[i] \o " OR to:" \o attendees[i]
         \o (IF i < n THEN " OR " ELSE "")
         \o IdentityTerms(attendees, i + 1, n)

\* C20: with a customer domain the query opens with exactly
\* (from:@domain OR to:@domain) and holds no attendee address; without one it
\* opens with the OR of from:/to: terms of the first 10 attendees in attendee
\* order and holds no address of an 11th or later attendee, and no identity
\* term at all when the meeting has no attendees.
C20_IdentityClause ==
    QueryBuilt =>
        LET attendees == pipeArgs.meeting.attendees
            domain    == pipeArgs.customer_domain
            n         == IF Len(attendees) < 10 THEN Len(attendees) ELSE 10
        IN  IF domain # ""
            THEN /\ StartsWith(query, "(from:@" \o domain \o " OR to:@"
                                      \o domain \o ") ")
                 /\ \A i \in DOMAIN attendees : ~Contains(attendees[i], query)
            ELSE /\ n > 0 =>
                        StartsWith(query, "(" \o IdentityTerms(attendees, 1, n)
                                          \o ") ")
                 /\ n = 0 => ~Contains("from:", query) /\ ~Contains("to:", query)
                 /\ \A i \in DOMAIN attendees :
                        i > 10 => ~Contains(attendees[i], query)

\* a query built without a customer domain for a meeting of eleven attendees:
\* the tenth is in it
C20_Witness ==
    /\ QueryBuilt
    /\ pipeArgs.customer_domain = ""
    /\ Len(pipeArgs.meeting.attendees) = 11
    /\ Contains("to:" \o pipeArgs.meeting.attendees[10], query)

(***************************************************************************)
(* _is_calendar_notification_email: the four signals.                      *)
(***************************************************************************)
Classified == notePc = "classified"

SenderSignal ==
    \E sender \in calendar_senders : Contains(sender, Lower(noteEmail.from))

SubjectSignal ==
    \E phrase \in calendar_subject_patterns :
        Contains(phrase, Lower(noteEmail.subject))

\* the content phrases found in the snippet, a space and the first 500
\* characters of the body
ContentPhrases ==
    LET body   == Lower(noteEmail.body)
        first  == SubSeq(body, 1, IF Len(body) < 500 THEN Len(body) ELSE 500)
        window == Lower(noteEmail.snippet) \o " " \o first
    IN  {phrase \in calendar_content_patterns : Contains(phrase, window)}

ContentSignal == \E p, q \in ContentPhrases : p # q

ShortLinkSignal ==
    /\ Len(noteEmail.body) < 300
    /\ \/ Contains("calendar.google.com", Lower(noteEmail.body))
       \/ Contains("meet.google.com", Lower(noteEmail.body))

\* C19: an email is classified as a calendar notification exactly when its
\* sender holds a notification address, or its subject holds a notification
\* phrase, or at least two content phrases occur in the snippet plus the first
\* 500 characters of the body, or the body is under 300 characters and holds a
\* calendar or meet link; one content phrase with a body of 300 characters or
\* more and a clean sender and subject is not a notification.
C19_NotificationSignals ==
    Classified =>
        /\ noteResult.ret <=>
               SenderSignal \/ SubjectSignal \/ ContentSignal \/ ShortLinkSignal
        /\ ( /\ Cardinality(ContentPhrases) = 1
             /\ Len(noteEmail.body) >= 300
             /\ ~SenderSignal
             /\ ~SubjectSignal ) => ~noteResult.ret

\* a classified email with one content phrase and a link in a body of exactly
\* 300 characters, a clean sender and a clean subject
C19_Witness ==
    /\ Classified
    /\ Cardinality(ContentPhrases) = 1
    /\ Len(noteEmail.body) = 300
    /\ Contains("meet.google.com", noteEmail.body)
    /\ ~SenderSignal
    /\ ~SubjectSignal
    /\ ~noteResult.ret

(***************************************************************************)
(* _build_search_query: the topic clause.                                  *)
(***************************************************************************)
Occurrences(sub, s) ==
    Cardinality({i \in 1..(Len(s) - Len(sub) + 1) :
                     SubSeq(s, i, i + Len(sub) - 1) = sub})

\* (subject:"k1" OR "k1" OR subject:"k2" OR "k2" ...), from term i on
RECURSIVE TopicTerms(_, _)
TopicTerms(terms, i) ==
    IF i > Len(terms) THEN ""
    ELSE "subject:\"" \o terms[i] \o "\" OR \"" \o terms[i] \o "\""
         \o (IF i < Len(terms) THEN " OR " ELSE "")
         \o TopicTerms(terms, i + 1)

\* the one source the topic clause is built from, by priority
TopicSource ==
    IF pipeArgs.customer_domain # "" THEN <<>>
    ELSE IF pipeArgs.customer_name # "" THEN <<pipeArgs.customer_name>>
    ELSE IF pipeArgs.project_keywords # <<>> THEN pipeArgs.project_keywords
    ELSE ExtractKeywords(pipeArgs.meeting.title, FALSE)

\* C21: the query holds at most one topic clause: none when customer_domain is
\* set, else the clause of customer_name alone, else that of the project
\* keywords alone, else that of the search-mode keywords of the title; the
\* subject: terms of the query are those of the chosen source and no others.
C21_OneTopicClauseByPriority ==
    QueryBuilt =>
        /\ Occurrences("(subject:", query) <= 1
        /\ Occurrences("subject:", query) = Len(TopicSource)
        /\ TopicSource # <<>> =>
               Contains("(" \o TopicTerms(TopicSource, 1) \o ") newer_than:", query)

\* a query built from a customer name although project keywords were given and
\* the title has keywords of its own
C21_Witness ==
    /\ QueryBuilt
    /\ pipeArgs.customer_domain = ""
    /\ pipeArgs.customer_name # ""
    /\ pipeArgs.project_keywords # <<>>
    /\ ExtractKeywords(pipeArgs.meeting.title, FALSE) # <<>>
    /\ Occurrences("subject:", query) = 1

(***************************************************************************)
(* The listing methods of CalendarTool: what their results are held to.    *)
(***************************************************************************)
ListingReturned == listPc = "returned"

Listed == ListingReturned /\ eventsAnswer.exc = "none"

Eligible(e) == ~AnyVeto(e)

\* an event the code cannot parse: a malformed timestamp, or neither an
\* all-day date nor a start dateTime
Unparseable(e) ==
    \/ MalformedTimes(e)
    \/ ~AllDayStart(e) /\ ~("start" \in DOMAIN e /\ "dateTime" \in DOMAIN e["start"])

EventText(e, key) == IF key \in DOMAIN e THEN Lower(e[key]) ELSE ""

\* the addresses of the attendees of a raw event, in backend order
RECURSIVE Addresses(_)
Addresses(attendees) ==
    IF attendees = <<>> THEN <<>>
    ELSE (IF "email" \in DOMAIN Head(attendees) /\ Head(attendees)["email"] # ""
          THEN <<Head(attendees)["email"]>> ELSE <<>>)
         \o Addresses(Tail(attendees))

AttendeeDomains(e) ==
    {Lower(DomainOf(Addresses(EventAttendees(e))[i])) :
        i \in {j \in 1..Len(Addresses(EventAttendees(e))) :
                   HasDomain(Addresses(EventAttendees(e))[j])}}

DomainHit(e) == Strip(Lower(listArgs.customer_domain)) \in AttendeeDomains(e)

KeywordHit(e) ==
    \E i \in 1..Len(listArgs.project_keywords) :
        Contains(Lower(listArgs.project_keywords[i]),
                 EventText(e, "summary") \o " " \o EventText(e, "description"))

NameHit(e) ==
    \/ Contains(Lower(listArgs.customer_name), EventText(e, "summary"))
    \/ Contains(Lower(listArgs.customer_name), EventText(e, "description"))
    \/ \E d \in AttendeeDomains(e) : Contains(Lower(listArgs.customer_name), d)

\* the one filter a call honours: domain, else keywords, else name, else none
FilterHit(e) ==
    IF listArgs.customer_domain # "" THEN DomainHit(e)
    ELSE IF listArgs.project_keywords # <<>> THEN KeywordHit(e)
    ELSE IF listArgs.customer_name # "" THEN NameHit(e)
    ELSE TRUE

RECURSIVE ExpectedIds(_, _)
\* the ids of the eligible events of the listing that pass the filter
ExpectedIds(evts, filtered) ==
    IF evts = <<>> THEN <<>>
    ELSE (IF Eligible(Head(evts)) /\ (filtered => FilterHit(Head(evts)))
          THEN <<Head(evts).id>> ELSE <<>>)
         \o ExpectedIds(Tail(evts), filtered)

ResultIds == [i \in 1..Len(listResult.ret) |-> listResult.ret[i].id]

\* C22: get_meetings_by_date_range returns the eligible meetings of the range
\* that pass one filter: the domain filter when customer_domain is given, else
\* the keyword filter when project_keywords is given, else the name filter when
\* customer_name is given, else all of them.
C22_OneFilterByPrecedence ==
    (Listed /\ listArgs.method = "date_range") =>
        /\ listResult.exc = "none"
        /\ ResultIds = ExpectedIds(events, TRUE)

\* The same statement over the listings all of whose events parse.
OneFilterByPrecedenceParseable ==
    (Listed /\ listArgs.method = "date_range"
        /\ \A i \in 1..Len(events) : ~Unparseable(events[i])) =>
        /\ listResult.exc = "none"
        /\ ResultIds = ExpectedIds(events, TRUE)

\* a call with all three filters given whose domain filter kept one meeting
\* that the keywords do not match and dropped one that the name matches
FilterPrecedenceReached ==
    /\ Listed
    /\ listArgs.customer_domain # ""
    /\ listArgs.project_keywords # <<>>
    /\ listArgs.customer_name # ""
    /\ Len(events) = 2
    /\ \A i \in 1..2 : Eligible(events[i]) /\ ~Unparseable(events[i])
    /\ ~KeywordHit(events[1]) /\ NameHit(events[2])
    /\ ResultIds = <<events[1].id>>

\* the raw event of the listing a returned meeting was parsed from
RawEvent(m) == events[CHOOSE i \in 1..Len(events) : events[i].id = m.id]

\* C29: every meeting a listing method returns has at least 2 addresses in its
\* attendees list, and the list is the addresses of all the attendees of its
\* raw event in backend order, as many as the eligibility veto counted.
C29_ReturnedMeetingsHaveTwoAddresses ==
    (Listed /\ listResult.exc = "none") =>
        \A i \in 1..Len(listResult.ret) :
            LET m == listResult.ret[i]
            IN  /\ Len(m.attendees) >= 2
                /\ Len(m.attendees) = Len(EventAttendees(RawEvent(m)))
                /\ m.attendees = Addresses(EventAttendees(RawEvent(m)))

\* The same statement over the listings whose attendees all have an address.
ReturnedMeetingsHaveTwoAddressesWithEmail ==
    (Listed /\ listResult.exc = "none"
        /\ \A i \in 1..Len(events) :
               Len(Addresses(EventAttendees(events[i]))) = Len(EventAttendees(events[i]))) =>
        \A i \in 1..Len(listResult.ret) :
            LET m == listResult.ret[i]
            IN  /\ Len(m.attendees) >= 2
                /\ m.attendees = Addresses(EventAttendees(RawEvent(m)))

RECURSIVE Parseable(_)
\* the events of a listing that can be parsed, in backend order
Parseable(evts) ==
    IF evts = <<>> THEN <<>>
    ELSE (IF Unparseable(Head(evts)) THEN <<>> ELSE <<Head(evts)>>)
         \o Parseable(Tail(evts))

\* C30: a listing method returns every event of the listing that can be
\* parsed and passes should_prepare (and the filter of the call), in backend
\* order, whether or not the listing also holds events that cannot be parsed.
C30_OtherEventsStillReturned ==
    Listed =>
        /\ listResult.exc = "none"
        /\ ResultIds = ExpectedIds(Parseable(events), listArgs.method = "date_range")

(***************************************************************************)
(* Keyword extraction: bounds, repetition, idempotence.                    *)
(***************************************************************************)
Extracted == kwPc \in {"extracted", "again", "context"}

ContextExtracted == kwPc = "context"

\* the context-mode tokens of the title followed by those of the description
\* without its URLs, before repetitions are removed
ContextCandidates ==
    (IF kwText = "" THEN <<>> ELSE ExtractKeywords(kwText, TRUE))
    \o (IF kwDescription = "" THEN <<>>
        ELSE ExtractKeywords(StripUrls(kwDescription), TRUE))

FirstIndex(x, seq) == CHOOSE i \in 1..Len(seq) : seq[i] = x /\ \A j \in 1..(i - 1) : seq[j] # x

\* C23: search-mode extraction returns at most 4 tokens; meeting-context
\* extraction returns at most 8 tokens, none repeated, which are the distinct
\* tokens of title and URL-stripped description in the order of their first
\* occurrences.
C23_KeywordCountsBounded ==
    /\ (Extracted /\ ~kwMode) => Len(keywords) <= 4
    /\ ContextExtracted =>
           /\ Len(context_keywords) <= 8
           /\ \A i, j \in 1..Len(context_keywords) :
                  i # j => context_keywords[i] # context_keywords[j]
           /\ \A i \in 1..Len(context_keywords) :
                  \E k \in 1..Len(ContextCandidates) :
                      ContextCandidates[k] = context_keywords[i]
           /\ \A i, j \in 1..Len(context_keywords) :
                  i < j => FirstIndex(context_keywords[i], ContextCandidates)
                           < FirstIndex(context_keywords[j], ContextCandidates)
           /\ {ContextCandidates[k] : k \in 1..Len(ContextCandidates)}
                  = {context_keywords[i] : i \in 1..Len(context_keywords)}

\* a title with more than 4 search-mode words cut to 4, and a context in which
\* a token of the title comes again in the description and is listed once
C23_Witness ==
    /\ ContextExtracted
    /\ ~kwMode
    /\ Len(keywords) = 4
    /\ Len(FindWords(kwText, "")) > 4
    /\ Len(ContextCandidates) > Len(context_keywords)
    /\ Len(context_keywords) >= 4

StopWords(mode) ==
    {"meeting", "sync", "call", "discussion", "weekly", "monthly", "daily",
     "standup", "stand-up", "stand", "the", "and", "or", "with", "for",
     "about", "on", "in", "at", "a", "an", "of", "to", "from", "by", "up"}
    \cup (IF mode THEN {}
          ELSE {"review", "update", "planning", "check-in"})

\* C24: extracting again, in the same mode, from the space-joined result
\* returns the same list; every token returned is lower-case, longer than 2
\* characters and not a stop word of the mode.
C24_ExtractionIdempotent ==
    /\ kwPc \in {"again", "context"} => keywordsAgain = keywords
    /\ Extracted =>
           \A i \in 1..Len(keywords) :
               /\ Lower(keywords[i]) = keywords[i]
               /\ Len(keywords[i]) > 2
               /\ keywords[i] \notin StopWords(kwMode)

\* a text with upper-case words, short words and stop words, extracted twice
\* in search mode with a result of several tokens
C24_Witness ==
    /\ kwPc = "again"
    /\ ~kwMode
    /\ Len(keywords) >= 2
    /\ Lower(kwText) # kwText
    /\ \E i \in 1..Len(FindWords(kwText, "")) :
           Len(FindWords(kwText, "")[i]) <= 2
    /\ \E i \in 1..Len(FindWords(kwText, "")) :
           Lower(FindWords(kwText, "")[i]) \in StopWords(FALSE)

ClassifierAnswered == llmAnswer.exc = "none"

NoRepeats(seq) == \A i, j \in 1..Len(seq) : i # j => seq[i] # seq[j]

AmongFirst(seq, n, batch) ==
    \A i \in 1..Len(seq) : \E k \in 1..Len(batch) : k <= n /\ batch[k] = seq[i]

\* C25: when the classifier call succeeds, every email the filtering stage
\* returns is one of the first 50 candidates that entered it, and no candidate
\* is returned more than once, in the stage's output or in the final list.
C25_ClassifierOutputIsSubset ==
    ClassifierAnswered =>
        /\ AmongFirst(email_threads, 50, EnteredClassifier)
        /\ NoRepeats(email_threads)
        /\ PipelineReturned => NoRepeats(pipeResult.ret)

\* The same statement without the part on repetition.
ClassifierOutputAmongCandidates ==
    ClassifierAnswered => AmongFirst(email_threads, 50, EnteredClassifier)

IsNotification(i) == details[i] # None /\ IsCalendarNotificationEmail(details[i])

\* C27: no email classified as a calendar notification is among the candidates
\* handed to the classifier or the scorer, or in the pipeline's output,
\* whatever the classifier did; and the output holds at most max_results emails.
C27_NotificationsNeverRanked ==
    /\ \A k \in 1..Len(email_threads) : ~IsNotification(email_threads[k])
    /\ \A i \in 1..Len(details) :
           IsNotification(i) => "relevance_score" \notin DOMAIN details[i]
    /\ (PipelineReturned /\ pipeResult.exc = "none") =>
           /\ Len(pipeResult.ret) <= pipeArgs.max_results
           /\ \A k \in 1..Len(pipeResult.ret) : ~IsNotification(pipeResult.ret[k])

\* a calendar notification sent by an attendee was fetched, the classifier
\* failed, and the pipeline returned the other mail alone
C27_Witness ==
    /\ PipelineReturned
    /\ ClassifierFailed
    /\ Len(details) = 2
    /\ IsNotification(1)
    /\ AttendeeMatch(details[1], MeetingAttendees(pipeArgs.meeting))
    /\ pipeResult = Returned(<<2>>)

ScoredAtAll == mailPc \in {"scored", "rescored", "unfiltered"}

\* the penalty condition of the most recent call, from the flags it wrote
PenalisedLast(id) == CustomerSet /\ Uncorroborated(id)

\* C28: after any sequence of scoring calls over the same records, an email
\* carries a filter_reason exactly when the most recent call penalised it.
C28_FilterReasonIsCurrent ==
    ScoredAtAll =>
        \A id \in Candidates :
            ("filter_reason" \in DOMAIN mailStore[id]) <=> PenalisedLast(id)

\* The same statement after calls with the same arguments only.
FilterReasonIsCurrentSameArguments ==
    (mailPc \in {"scored", "rescored"}) =>
        \A id \in Candidates :
            ("filter_reason" \in DOMAIN mailStore[id]) <=> PenalisedLast(id)

\* m: the context keywords of the meeting found in the lower-cased subject and
\* body of a candidate; n: how many context keywords there are
ContextKeywordList == ExtractMeetingContextKeywords(mailMeeting)

KeywordsFound(id) ==
    Cardinality({i \in 1..Len(ContextKeywordList) :
                     Contains(ContextKeywordList[i],
                              Lower(Get(mailStore[id], "subject", "") \o " "
                                    \o Get(mailStore[id], "body", "")))})

AttendeesNamed(id) ==
    {i \in 1..Len(mailMeeting["attendees"]) :
        LET address == Lower(mailMeeting["attendees"][i])
        IN  \/ Contains(address, Lower(Get(mailStore[id], "from", "")))
            \/ Contains(address, Lower(Get(mailStore[id], "to", "")))}

\* C26: without the penalty the unrounded score is 0.40 for an attendee match,
\* counted once, plus 0.25 for a customer match, plus 0.25 * min(m/n, 1) for m
\* of the n context keywords found (nothing when n = 0), plus the recency term
\* 0.10, 0.05 or 0; context_match is true exactly when m > 0.
C26_UnpenalisedScoreIsWeightedSum ==
    Scored =>
        \A id \in Candidates :
            LET n == Len(ContextKeywordList)
                m == KeywordsFound(id)
            IN  /\ mailStore[id]["context_match"] <=> m > 0
                /\ mailStore[id]["attendee_match"] <=> AttendeesNamed(id) # {}
                /\ ~PenalisedLast(id) =>
                       n * score[id] =
                           n * ( (IF AttendeesNamed(id) # {} THEN (40 * ScoreUnit) \div 100 ELSE 0)
                                 + (IF mailStore[id]["customer_match"]
                                    THEN (25 * ScoreUnit) \div 100 ELSE 0)
                                 + RecencyContribution(id) )
                           + (IF m < n THEN m ELSE n) * ((25 * ScoreUnit) \div 100)
                /\ (~PenalisedLast(id) /\ n = 0) =>
                       score[id] =
                           (IF AttendeesNamed(id) # {} THEN (40 * ScoreUnit) \div 100 ELSE 0)
                           + (IF mailStore[id]["customer_match"]
                              THEN (25 * ScoreUnit) \div 100 ELSE 0)
                           + RecencyContribution(id)

\* an unpenalised candidate that names two attendees, holds some but not all
\* of the context keywords, and is recent
C26_Witness ==
    /\ Scored
    /\ \E id \in Candidates :
           /\ ~PenalisedLast(id)
           /\ Cardinality(AttendeesNamed(id)) = 2
           /\ KeywordsFound(id) > 0
           /\ KeywordsFound(id) < Len(ContextKeywordList)
           /\ RecencyContribution(id) > 0

====
